---------------------------- MODULE Spec2Model ----------------------------
(***************************************************************************)
(* A model of the Planisuss world engine (src/planisuss_main.py): the      *)
(* grid, the herds and prides keyed by cell, and the nine phases of        *)
(* World.a_day_on_planysuss.  One action per phase; the random draws of a  *)
(* phase are the nondeterminism of its action.                             *)
(*                                                                         *)
(* The numeric constants of src/planisuss_constants.py are scaled down so  *)
(* that every rule of the engine is exercised inside a finite state space  *)
(* (a herd cap of 2 instead of 300, a lifetime of 2 days instead of 1000,  *)
(* ...).  Each scaled constant keeps the name of the constant it stands    *)
(* for.  social_attitude is a Python float; it is modelled as an exact     *)
(* rational <<numerator, denominator>> in lowest terms.                    *)
(***************************************************************************)
EXTENDS Integers, Sequences, FiniteSets, TLC

VARIABLES grid, herds, prides, day, ground_cells, phase, nextId, births,
          time_data, world_stats, call, before, pause, event

vars == <<grid, herds, prides, day, ground_cells, phase, nextId, births,
          time_data, world_stats, call, before, pause, event>>

(***************************************************************************)
(* Constants (planisuss_constants.py, scaled) and bounds                   *)
(***************************************************************************)
\* number of simulated days explored
MaxDays == 2

NUMCELLS_R == 5
NUMCELLS_C == 5
NEIGHBORHOOD_E == 1
NEIGHBORHOOD_C == 1
MAX_HERD == 2
MAX_PRIDE == 4
MAX_ENERGY_E == 4
MAX_ENERGY_C == 4
MAX_LIFE_E == 2
MAX_LIFE_C == 2
MIN_LIFE_E == 2
MIN_LIFE_C == 2
AGING_E == 1
AGING_C == 1
GROWING == 1
MIN_MOVEMENT_E == 3
MAX_MOVEMENT_E == 300
MIN_MOVEMENT_C == 3
MAX_MOVEMENT_C == 300
NUM_HERDS_LB == 1
NUM_HERDS_UB == 2
NUM_PRIDES_LB == 1
NUM_PRIDES_UB == 2
NUM_ERBAST_LB == 1
NUM_ERBAST_UB == 2
NUM_CARVIZ_LB == 1
NUM_CARVIZ_UB == 2
\* the literal 100 of World.growing: the maximum Vegetob density
MAX_VEGETOB == 3
\* the literal -100 of World.__init__: a water cell
WATER == -100
\* the literal 10 of Group.spawning: days between two energy losses by aging
AGING_PERIOD == 2
\* the literal 800 of World.overwhelming: eight neighbours at full density
OVERWHELM_SUM == 8 * MAX_VEGETOB

(***************************************************************************)
(* Exact rationals <<n, d>>, d > 0, in lowest terms                        *)
(***************************************************************************)
RECURSIVE Gcd(_, _)
Gcd(a, b) == IF b = 0 THEN a ELSE Gcd(b, a % b)

Abs(x) == IF x < 0 THEN -x ELSE x

Rat(n, d) ==
    LET g == Gcd(Abs(n), d) IN
    IF n = 0 THEN <<0, 1>> ELSE <<n \div g, d \div g>>

\* a < b, by the continued-fraction expansions (no product of the operands)
RECURSIVE RLt(_, _)
RLt(a, b) ==
    LET qa == a[1] \div a[2]
        qb == b[1] \div b[2]
        ra == a[1] % a[2]
        rb == b[1] % b[2]
    IN  IF qa # qb THEN qa < qb
        ELSE IF rb = 0 THEN FALSE
        ELSE IF ra = 0 THEN TRUE
        ELSE RLt(<<b[2], rb>>, <<a[2], ra>>)

RLe(a, b) == ~RLt(b, a)

RAdd(a, b) ==
    LET g == Gcd(a[2], b[2])
        l == (a[2] \div g) * b[2]
    IN  Rat(a[1] * (l \div a[2]) + b[1] * (l \div b[2]), l)

RSub(a, b) == RAdd(a, <<-b[1], b[2]>>)

\* a / b for b > 0
RDiv(a, b) ==
    LET g1 == Gcd(Abs(a[1]), b[1])
        g2 == Gcd(b[2], a[2])
    IN  IF a[1] = 0 THEN <<0, 1>>
        ELSE <<(a[1] \div g1) * (b[2] \div g2), (a[2] \div g2) * (b[1] \div g1)>>

RMin(a, b) == IF RLt(b, a) THEN b ELSE a
RMax(a, b) == IF RLt(a, b) THEN b ELSE a

ZERO == <<0, 1>>
ONE == <<1, 1>>
HUNGER_E == <<11, 10>>
HUNGER_C == <<103, 100>>
EAT_C == <<1, 20>>
WIN_FIGHT == <<1, 10>>
JOIN_PRIDE == <<9, 10>>

Max(a, b) == IF a >= b THEN a ELSE b
Min(a, b) == IF a <= b THEN a ELSE b

(***************************************************************************)
(* list.sort(key=...): stable, so equal keys keep their order; with        *)
(* reverse=True the order of equal keys is kept as well                    *)
(***************************************************************************)
Rank(keys, j) ==
    1 + Cardinality({k \in DOMAIN keys :
            keys[k] < keys[j] \/ (keys[k] = keys[j] /\ k < j)})

SortAsc(s, keys) ==
    [i \in 1..Len(s) |-> s[CHOOSE j \in 1..Len(s) : Rank(keys, j) = i]]

SortDesc(s, keys) == SortAsc(s, [k \in DOMAIN keys |-> -keys[k]])

EnergyKeys(pop) == [k \in 1..Len(pop) |-> pop[k].energy]

RECURSIVE SumSeq(_)
SumSeq(s) == IF s = <<>> THEN 0 ELSE Head(s) + SumSeq(Tail(s))

(***************************************************************************)
(* Agents, groups and the grid                                             *)
(***************************************************************************)
\* Specie.__init__; id stands for the identity of the Python object
Specie(id, energy, lifetime, social_attitude) ==
    [id |-> id, energy |-> energy, lifetime |-> lifetime, age |-> 0,
     social_attitude |-> social_attitude, moved |-> FALSE]

Cells == (0..(NUMCELLS_R - 1)) \X (0..(NUMCELLS_C - 1))

\* grid is the 3 x NUMCELLS_R x NUMCELLS_C array: a sequence of three
\* layers, each a sequence of rows; the element grid[idx, i, j] of the
\* array, whose indices count from 0, is grid[idx + 1][i + 1][j + 1]
at(g, idx, cell) == g[idx + 1][cell[1] + 1][cell[2] + 1]

put(g, idx, cell, v) == [g EXCEPT ![idx + 1][cell[1] + 1][cell[2] + 1] = v]

\* the layer whose element of cell c is f[c]
Layer(f) ==
    [i \in 1..NUMCELLS_R |-> [j \in 1..NUMCELLS_C |-> f[<<i - 1, j - 1>>]]]

\* the cells in the order of two nested range() loops
CellSeq == [k \in 1..(NUMCELLS_R * NUMCELLS_C) |->
                <<(k - 1) \div NUMCELLS_C, (k - 1) % NUMCELLS_C>>]

\* a dict {cell: group} is a sequence of entries in insertion order; the
\* value of an entry is the list of the populations of its groups (exactly
\* one outside the span between Movement and Unify)
Entry(cell, groups) == [cell |-> cell, groups |-> groups]

Keys(dict) == {dict[k].cell : k \in 1..Len(dict)}

\* dict.get(cell, None): the index of the entry, 0 for None
Get(dict, cell) ==
    IF cell \in Keys(dict)
    THEN CHOOSE k \in 1..Len(dict) : dict[k].cell = cell
    ELSE 0

\* World.neighbourhood, with self.ground_cells passed as ground
\* a variant of neighbourhoodOf whose ranges stop one short: C37 fails with
\* it
narrow_neighbourhood(ground, cell_row, cell_col, radius) ==
    SelectSeq(CellSeq, LAMBDA c :
        /\ c[1] >= Max(0, cell_row - radius)
        /\ c[1] < Min(cell_row + radius, NUMCELLS_R)
        /\ c[2] >= Max(0, cell_col - radius)
        /\ c[2] < Min(cell_col + radius, NUMCELLS_C)
        /\ c \in ground
        /\ c # <<cell_row, cell_col>>)

\* a variant of neighbourhoodOf that lists the water cells too: C38 fails
\* with it
unfiltered_neighbourhood(ground, cell_row, cell_col, radius) ==
    SelectSeq(CellSeq, LAMBDA c :
        /\ c[1] >= Max(0, cell_row - radius)
        /\ c[1] < Min(cell_row + radius + 1, NUMCELLS_R)
        /\ c[2] >= Max(0, cell_col - radius)
        /\ c[2] < Min(cell_col + radius + 1, NUMCELLS_C)
        /\ c # <<cell_row, cell_col>>)

neighbourhoodOf(ground, cell_row, cell_col, radius) ==
    SelectSeq(CellSeq, LAMBDA c :
        /\ c[1] >= Max(0, cell_row - radius)
        /\ c[1] < Min(cell_row + radius + 1, NUMCELLS_R)
        /\ c[2] >= Max(0, cell_col - radius)
        /\ c[2] < Min(cell_col + radius + 1, NUMCELLS_C)
        /\ c \in ground
        /\ c # <<cell_row, cell_col>>)

neighbourhood(cell_row, cell_col, radius) ==
    neighbourhoodOf(ground_cells, cell_row, cell_col, radius)


(***************************************************************************)
(* World.__init__: the initial world                                       *)
(***************************************************************************)
\* the ground cells drawn by World.__init__ (every other cell is water)
GroundLayouts == { {<<1, 1>>, <<1, 2>>} }

\* the draws of random.randint(0, 100) for the Vegetob of a ground cell
VegetobDraws == {0, MAX_VEGETOB}

\* the draws of random.random() for the social attitude of an animal
AttitudeDraws == {<<1, 100>>, <<99, 100>>}

\* the draws <<energy, lifetime, social_attitude>> of Group.world_init for
\* one animal: a strong animal of full lifetime, of either attitude, or a
\* weak one
AnimalDraws(MAX_ENERGY, MAX_LIFE) ==
    {<<MAX_ENERGY, MAX_LIFE, a>> : a \in AttitudeDraws} \cup {<<0, 1, <<1, 100>>>>}

\* the draws of Group.world_init for one group: num_animals animals; the
\* animals of a group are given equal draws
GroupDraws(NUM_ANIMALS_LB, NUM_ANIMALS_UB, MAX_ENERGY, MAX_LIFE) ==
    {[k \in 1..n |-> d] :
        n \in NUM_ANIMALS_LB..NUM_ANIMALS_UB,
        d \in AnimalDraws(MAX_ENERGY, MAX_LIFE)}

\* Group.world_init: the population built from the draws
world_init(draws, firstId) ==
    [k \in 1..Len(draws) |->
        Specie(firstId + k - 1, draws[k][1], draws[k][2], draws[k][3])]

\* the cells drawn for the groups of one species: distinct ground cells
CellDraws(ground, LB, UB) ==
    {s \in UNION {[1..n -> ground] : n \in LB..UB} :
        \A i, j \in DOMAIN s : i # j => s[i] # s[j]}

\* the ids of the animals of group k start after those of groups 1..k-1
RECURSIVE FirstId(_, _, _)
FirstId(draws, k, base) ==
    IF k = 1 THEN base ELSE FirstId(draws, k - 1, base) + Len(draws[k - 1])

InitDict(cells, draws, base) ==
    [k \in 1..Len(cells) |->
        Entry(cells[k], <<world_init(draws[k], FirstId(draws, k, base))>>)]

Population(dict) ==
    SumSeq([k \in 1..Len(dict) |->
        SumSeq([g \in 1..Len(dict[k].groups) |-> Len(dict[k].groups[g])])])

\* the number of animals of the groups of dict resident in cell
CountAt(dict, cell) ==
    SumSeq([k \in 1..Len(dict) |->
        IF dict[k].cell = cell
        THEN SumSeq([g \in 1..Len(dict[k].groups) |-> Len(dict[k].groups[g])])
        ELSE 0])

\* the per-day series of World.__init__, all empty
NoStats ==
    [erbast_population_data |-> <<>>, carviz_population_data |-> <<>>,
     vegetob_density_data |-> <<>>,
     erbast_energy_data |-> <<>>, erbast_lifetime_data |-> <<>>,
     erbast_age_data |-> <<>>, erbast_social_attitude_data |-> <<>>,
     carviz_energy_data |-> <<>>, carviz_lifetime_data |-> <<>>,
     carviz_age_data |-> <<>>, carviz_social_attitude_data |-> <<>>]

\* the worlds explored: one species is spread over the cells in every
\* drawn way while the other is a single group of n strong animals in the
\* first ground cell
Reference(cells, draws, n) ==
    /\ Len(cells) = 1
    /\ cells[1] = <<1, 1>>
    /\ Len(draws[1]) = n
    /\ \A k \in 1..n : draws[1][k][1] # 0 /\ draws[1][k][3] = <<99, 100>>

\* the world World.__init__ builds from its draws: the Vegetob veg of the
\* ground cells, the cells hc and pc of the herds and of the prides, and
\* the animals hd and pd of each group
InitWorld(veg, hc, pc, hd, pd) ==
    /\ herds = InitDict(hc, hd, 1)
    /\ prides = InitDict(pc, pd, 1 + Population(herds))
    /\ grid = <<Layer([c \in Cells |-> IF c \in ground_cells THEN veg[c] ELSE WATER]),
                 Layer([c \in Cells |-> CountAt(herds, c)]),
                 Layer([c \in Cells |-> CountAt(prides, c)])>>
    /\ nextId = 1 + Population(herds) + Population(prides)
    /\ day = 1
    /\ phase = "init"
    /\ births = <<>>
    /\ time_data = <<>>
    /\ world_stats = NoStats
    /\ call = <<>>
    /\ before = <<>>
    /\ pause = FALSE
    /\ event = "none"

Init ==
    /\ ground_cells \in GroundLayouts
    /\ \E veg \in [ground_cells -> VegetobDraws],
          hc \in CellDraws(ground_cells, NUM_HERDS_LB, NUM_HERDS_UB),
          pc \in CellDraws(ground_cells, NUM_PRIDES_LB, NUM_PRIDES_UB) :
        \E hd \in [1..Len(hc) ->
                    GroupDraws(NUM_ERBAST_LB, NUM_ERBAST_UB, MAX_ENERGY_E, MAX_LIFE_E)],
           pd \in [1..Len(pc) ->
                    GroupDraws(NUM_CARVIZ_LB, NUM_CARVIZ_UB, MAX_ENERGY_C, MAX_LIFE_C)] :
            /\ Reference(hc, hd, NUM_ERBAST_UB) \/ Reference(pc, pd, NUM_CARVIZ_LB)
            /\ InitWorld(veg, hc, pc, hd, pd)

\* the draws of random.random() with its least value, 0.0, among them
ZeroAttitudeDraws == {ZERO, <<99, 100>>}

\* the draws of Group.world_init for one group of strong animals, each with
\* its own draw of the social attitude
ZeroGroupDraws(NUM_ANIMALS_LB, NUM_ANIMALS_UB, MAX_ENERGY, MAX_LIFE) ==
    UNION {[1..n -> {<<MAX_ENERGY, MAX_LIFE, a>> : a \in ZeroAttitudeDraws}] :
            n \in NUM_ANIMALS_LB..NUM_ANIMALS_UB}

\* the worlds with the least number of herds and of prides, in which an
\* animal can have drawn the social attitude 0.0
InitZero ==
    /\ ground_cells \in GroundLayouts
    /\ \E veg \in [ground_cells -> VegetobDraws],
          hc \in CellDraws(ground_cells, NUM_HERDS_LB, NUM_HERDS_LB),
          pc \in CellDraws(ground_cells, NUM_PRIDES_LB, NUM_PRIDES_LB) :
        \E hd \in [1..Len(hc) ->
                    ZeroGroupDraws(NUM_ERBAST_LB, NUM_ERBAST_UB, MAX_ENERGY_E, MAX_LIFE_E)],
           pd \in [1..Len(pc) ->
                    ZeroGroupDraws(NUM_CARVIZ_LB, NUM_CARVIZ_UB, MAX_ENERGY_C, MAX_LIFE_C)] :
            InitWorld(veg, hc, pc, hd, pd)

\* the draws of Group.world_init for one group of strong animals of equal
\* attitude
StrongGroupDraws(NUM_ANIMALS_LB, NUM_ANIMALS_UB, MAX_ENERGY, MAX_LIFE) ==
    {[k \in 1..n |-> <<MAX_ENERGY, MAX_LIFE, a>>] :
        n \in NUM_ANIMALS_LB..NUM_ANIMALS_UB, a \in AttitudeDraws}

\* draws of random.random() with a value in the middle of its range
MidAttitudeDraws == {<<2, 5>>, <<99, 100>>}

\* the draws of Group.world_init for one group of strong animals of equal
\* attitude, drawn from MidAttitudeDraws
MidGroupDraws(NUM_ANIMALS_LB, NUM_ANIMALS_UB, MAX_ENERGY, MAX_LIFE) ==
    {[k \in 1..n |-> <<MAX_ENERGY, MAX_LIFE, a>>] :
        n \in NUM_ANIMALS_LB..NUM_ANIMALS_UB, a \in MidAttitudeDraws}

\* the worlds with one herd of the least size and the greatest number of
\* prides, whose Carviz can have a middling social attitude
InitMid ==
    /\ ground_cells \in GroundLayouts
    /\ \E veg \in [ground_cells -> VegetobDraws],
          hc \in CellDraws(ground_cells, NUM_HERDS_LB, NUM_HERDS_LB),
          pc \in CellDraws(ground_cells, NUM_PRIDES_UB, NUM_PRIDES_UB) :
        \E hd \in [1..Len(hc) ->
                    StrongGroupDraws(NUM_ERBAST_LB, NUM_ERBAST_LB, MAX_ENERGY_E, MAX_LIFE_E)],
           pd \in [1..Len(pc) ->
                    MidGroupDraws(NUM_CARVIZ_LB, NUM_CARVIZ_UB, MAX_ENERGY_C, MAX_LIFE_C)] :
            InitWorld(veg, hc, pc, hd, pd)

\* a draw of random.randint(0, MAX_ENERGY) that leaves an animal one point
\* of energy after its first aging
LEAN_ENERGY == 2

\* the draws of Group.world_init for one group of lean animals of full
\* lifetime and equal attitude
LeanGroupDraws(NUM_ANIMALS_LB, NUM_ANIMALS_UB, MAX_LIFE) ==
    {[k \in 1..n |-> <<LEAN_ENERGY, MAX_LIFE, a>>] :
        n \in NUM_ANIMALS_LB..NUM_ANIMALS_UB, a \in AttitudeDraws}

\* the worlds with the least number of herds and of prides, of lean animals
InitLean ==
    /\ ground_cells \in GroundLayouts
    /\ \E veg \in [ground_cells -> VegetobDraws],
          hc \in CellDraws(ground_cells, NUM_HERDS_LB, NUM_HERDS_LB),
          pc \in CellDraws(ground_cells, NUM_PRIDES_LB, NUM_PRIDES_LB) :
        \E hd \in [1..Len(hc) -> LeanGroupDraws(NUM_ERBAST_LB, NUM_ERBAST_UB, MAX_LIFE_E)],
           pd \in [1..Len(pc) -> LeanGroupDraws(NUM_CARVIZ_LB, NUM_CARVIZ_UB, MAX_LIFE_C)] :
            InitWorld(veg, hc, pc, hd, pd)

\* a layout in which the ground cell (3, 3) has no ground neighbour
IsleLayouts == { {<<1, 1>>, <<1, 2>>, <<3, 3>>} }

\* the worlds of that layout with the least number of herds, of prides and
\* of Carviz, strong animals, and the isolated cell full of Vegetob
InitIsle ==
    /\ ground_cells \in IsleLayouts
    /\ \E veg \in [ground_cells -> VegetobDraws],
          hc \in CellDraws(ground_cells, NUM_HERDS_LB, NUM_HERDS_LB),
          pc \in CellDraws(ground_cells, NUM_PRIDES_LB, NUM_PRIDES_LB) :
        \E hd \in [1..Len(hc) ->
                    StrongGroupDraws(NUM_ERBAST_LB, NUM_ERBAST_UB, MAX_ENERGY_E, MAX_LIFE_E)],
           pd \in [1..Len(pc) ->
                    StrongGroupDraws(NUM_CARVIZ_LB, NUM_CARVIZ_LB, MAX_ENERGY_C, MAX_LIFE_C)] :
            /\ veg[<<3, 3>>] = MAX_VEGETOB
            /\ InitWorld(veg, hc, pc, hd, pd)

\* the draws of Group.world_init for one group of num_animals animals of
\* full lifetime, each with its own draw of the energy, and of equal
\* attitude drawn from attitudes
MixedGroupDraws(num_animals, MAX_ENERGY, MAX_LIFE, attitudes) ==
    {[k \in 1..num_animals |-> <<e[k], MAX_LIFE, a>>] :
        e \in [1..num_animals -> {LEAN_ENERGY, MAX_ENERGY}], a \in attitudes}

\* the worlds with two herds, a full one in the first ground cell, whose
\* Erbast can have drawn the social attitude 0.0, and a single Erbast in
\* the other, of mixed energy, and one pride of one strong and sociable
\* Carviz
InitGraze ==
    /\ ground_cells \in GroundLayouts
    /\ \E veg \in [ground_cells -> VegetobDraws],
          hc \in CellDraws(ground_cells, NUM_HERDS_UB, NUM_HERDS_UB),
          pc \in CellDraws(ground_cells, NUM_PRIDES_LB, NUM_PRIDES_LB) :
        \E hd1 \in MixedGroupDraws(NUM_ERBAST_UB, MAX_ENERGY_E, MAX_LIFE_E, ZeroAttitudeDraws),
           hd2 \in MixedGroupDraws(NUM_ERBAST_LB, MAX_ENERGY_E, MAX_LIFE_E, AttitudeDraws),
           pd \in [1..Len(pc) ->
                    {<<<<MAX_ENERGY_C, MAX_LIFE_C, <<99, 100>>>>>>}] :
            /\ hc[1] = <<1, 1>>
            /\ InitWorld(veg, hc, pc, <<hd1, hd2>>, pd)

\* the draws of Group.world_init for one group of animals of full lifetime,
\* of the given attitude and of equal energy, 0 or MAX_ENERGY
FighterDraws(NUM_ANIMALS_LB, NUM_ANIMALS_UB, energies, MAX_LIFE, attitude) ==
    {[k \in 1..n |-> <<e, MAX_LIFE, attitude>>] :
        n \in NUM_ANIMALS_LB..NUM_ANIMALS_UB, e \in energies}

\* the worlds with two prides too unsociable to join, one alone in its cell
\* and one that shares its cell with a herd of one strong Erbast
InitFight ==
    /\ ground_cells \in GroundLayouts
    /\ \E veg \in [ground_cells -> VegetobDraws],
          hc \in CellDraws(ground_cells, NUM_HERDS_LB, NUM_HERDS_LB),
          pc \in CellDraws(ground_cells, NUM_PRIDES_UB, NUM_PRIDES_UB) :
        \E hd \in [1..Len(hc) ->
                    {<<<<MAX_ENERGY_E, MAX_LIFE_E, <<99, 100>>>>>>}],
           pd1 \in FighterDraws(NUM_CARVIZ_LB, NUM_CARVIZ_UB, {0, MAX_ENERGY_C},
                                MAX_LIFE_C, <<1, 100>>),
           pd2 \in FighterDraws(NUM_CARVIZ_LB, NUM_CARVIZ_UB, {MAX_ENERGY_C},
                                MAX_LIFE_C, <<2, 5>>) :
            /\ hc[1] = pc[2]
            /\ InitWorld(veg, hc, pc, hd, <<pd1, pd2>>)

\* the layout in which every cell off the border is ground: the cell
\* (2, 2) has eight ground neighbours
FullLayouts == { (1..(NUMCELLS_R - 2)) \X (1..(NUMCELLS_C - 2)) }

\* the worlds of that layout with one herd and one pride of strong animals,
\* each in the middle cell or in a corner, and every cell full of Vegetob
\* but for the draw of the cell (1, 2)
InitFull ==
    /\ ground_cells \in FullLayouts
    /\ \E veg \in [ground_cells -> (MAX_VEGETOB - 2)..MAX_VEGETOB],
          hc \in CellDraws({<<1, 1>>, <<2, 2>>}, NUM_HERDS_LB, NUM_HERDS_LB),
          pc \in CellDraws({<<1, 1>>, <<2, 2>>}, NUM_PRIDES_LB, NUM_PRIDES_LB) :
        \E hd \in [1..Len(hc) ->
                    StrongGroupDraws(NUM_ERBAST_LB, NUM_ERBAST_UB, MAX_ENERGY_E, MAX_LIFE_E)],
           pd \in [1..Len(pc) ->
                    StrongGroupDraws(NUM_CARVIZ_LB, NUM_CARVIZ_LB, MAX_ENERGY_C, MAX_LIFE_C)] :
            /\ \A c \in ground_cells \ {<<1, 2>>} : veg[c] = MAX_VEGETOB
            /\ InitWorld(veg, hc, pc, hd, pd)

\* layouts drawn by World.__init__ around the ground cell (1, 1): each of
\* five other cells off the border is ground or water
MixedLayouts ==
    {{<<1, 1>>} \cup l : l \in SUBSET {<<1, 2>>, <<2, 2>>, <<2, 3>>, <<3, 1>>, <<3, 3>>}}

\* the worlds of those layouts with one strong Erbast and one strong Carviz
\* in the cell (1, 1) and no Vegetob
InitLayouts ==
    /\ ground_cells \in MixedLayouts
    /\ \E hd \in StrongGroupDraws(NUM_ERBAST_LB, NUM_ERBAST_LB, MAX_ENERGY_E, MAX_LIFE_E),
          pd \in StrongGroupDraws(NUM_CARVIZ_LB, NUM_CARVIZ_LB, MAX_ENERGY_C, MAX_LIFE_C) :
        InitWorld([c \in ground_cells |-> 0], <<<<1, 1>>>>, <<<<1, 1>>>>, <<hd>>, <<pd>>)

(***************************************************************************)
(* Phase 1, World.growing                                                  *)
(***************************************************************************)
\* the world a caller of a_day_on_planysuss can observe
World ==
    [grid |-> grid, herds |-> herds, prides |-> prides, day |-> day,
     time_data |-> time_data, world_stats |-> world_stats]

\* a variant of growing without the cap: C17 fails with it
unbounded_growing(g) ==
    [g EXCEPT ![1] = Layer([c \in Cells |->
        IF c \in ground_cells THEN at(g, 0, c) + GROWING ELSE at(g, 0, c)])]

growing(g) ==
    [g EXCEPT ![1] = Layer([c \in Cells |->
        IF c \in ground_cells THEN Min(at(g, 0, c) + GROWING, MAX_VEGETOB)
        ELSE at(g, 0, c)])]

\* the call of World.a_day_on_planysuss and its first phase
a_day_on_planysuss ==
    /\ phase \in {"init", "stats"}
    /\ day <= MaxDays
    /\ grid' = growing(grid)
    /\ phase' = "growing"
    /\ births' = <<>>
    /\ call' = World
    /\ UNCHANGED <<herds, prides, day, ground_cells, nextId, time_data, world_stats, before>>

Growing ==
    /\ a_day_on_planysuss
    /\ UNCHANGED <<pause, event>>

(***************************************************************************)
(* Phase 2, World.overwhelming                                             *)
(***************************************************************************)
sum_vegetob(g, cell) ==
    LET n == neighbourhood(cell[1], cell[2], 1) IN
    SumSeq([k \in 1..Len(n) |-> at(g, 0, n[k])])

\* a variant of overwhelmed that asks every ground neighbour, however few,
\* to be full of Vegetob: C36 fails with it
overwhelmed_by_ground(g, dict) ==
    {dict[k].cell : k \in {j \in 1..Len(dict) :
        sum_vegetob(g, dict[j].cell) =
            MAX_VEGETOB * Len(neighbourhood(dict[j].cell[1], dict[j].cell[2], 1))}}

\* the entries that are kept: those of the cells that are not overwhelmed
overwhelmed(g, dict) == {dict[k].cell : k \in {j \in 1..Len(dict) :
                            sum_vegetob(g, dict[j].cell) = OVERWHELM_SUM}}

Overwhelming ==
    /\ phase = "growing"
    /\ LET rh == overwhelmed(grid, herds)
           rp == overwhelmed(grid, prides)
       IN  /\ herds' = SelectSeq(herds, LAMBDA e : e.cell \notin rh)
           /\ prides' = SelectSeq(prides, LAMBDA e : e.cell \notin rp)
           /\ grid' = [grid EXCEPT
                ![2] = Layer([c \in Cells |-> IF c \in rh THEN 0 ELSE at(grid, 1, c)]),
                ![3] = Layer([c \in Cells |-> IF c \in rp THEN 0 ELSE at(grid, 2, c)])]
    /\ phase' = "overwhelming"
    /\ UNCHANGED <<day, ground_cells, pause, event, nextId, births, time_data, world_stats, call, before>>

(***************************************************************************)
(* Phase 3, Herd.movement, Pride.movement and World.movement               *)
(***************************************************************************)
\* energy * social_attitude >= m, for m > 0 and social_attitude >= 0
MulGe(a, m) == a.energy > 0 /\ RLe(Rat(m, a.energy), a.social_attitude)

\* energy / social_attitude > m, for social_attitude > 0
DivGt(a, m) == RLt(a.social_attitude, Rat(a.energy, m))

\* energy / social_attitude raises ZeroDivisionError
DivFault(pop) == \E k \in 1..Len(pop) : pop[k].social_attitude[1] = 0

\* a variant of Moved in which the animals that move keep their energy: C29
\* fails with it
MovedFree(pop) == [k \in 1..Len(pop) |-> [pop[k] EXCEPT !.moved = TRUE]]

\* the animals that move pay one point of energy
Moved(pop) ==
    [k \in 1..Len(pop) |-> [pop[k] EXCEPT !.moved = TRUE, !.energy = @ - 1]]

\* a variant of Stayed that leaves the flag as it was: C28 fails with it
StayedUnreset(pop) == pop

Stayed(pop) == [k \in 1..Len(pop) |-> [pop[k] EXCEPT !.moved = FALSE]]

\* a variant of MoveResult in which the animals that move are also left in
\* the group that stays: C11 fails with it
CopyingResult(cell, best_cell, stay, move) ==
    [fault |-> FALSE,
     self |-> Stayed(stay) \o Moved(move),
     out |-> SelectSeq(<<<<Stayed(stay) \o Moved(move), cell>>, <<Moved(move), best_cell>>>>,
                       LAMBDA t : Len(t[1]) > 0)]

\* a variant of MoveResult that returns the empty groups too: C39 fails
\* with it
UnfilteredResult(cell, best_cell, stay, move) ==
    [fault |-> FALSE,
     self |-> Stayed(stay),
     out |-> <<<<Stayed(stay), cell>>, <<Moved(move), best_cell>>>>]

\* what the movement of one group gives: fault, a ZeroDivisionError was
\* raised; self, the population of the group object afterwards; out, the
\* list of (population, cell) tuples returned, the empty groups removed
MoveResult(cell, best_cell, stay, move) ==
    [fault |-> FALSE,
     self |-> Stayed(stay),
     out |-> SelectSeq(<<<<Stayed(stay), cell>>, <<Moved(move), best_cell>>>>,
                       LAMBDA t : Len(t[1]) > 0)]

NoMove(cell, pop) == [fault |-> FALSE, self |-> pop, out |-> <<<<pop, cell>>>>]

MoveFault(pop) == [fault |-> TRUE, self |-> pop, out |-> <<>>]

\* the herd moves when its cell has less Vegetob than Erbast and less than
\* the best cell
\* a variant of HerdMoves that does not look at the best cell: C22 fails
\* with it
HerdMovesBlindly(g, cell, best_cell, pop) == at(g, 0, cell) < Len(pop)

HerdMoves(g, cell, best_cell, pop) ==
    at(g, 0, cell) < Len(pop) /\ at(g, 0, cell) < at(g, 0, best_cell)

HerdFollows(a) == MulGe(a, MIN_MOVEMENT_E) /\ a.energy > 1
HerdRemains(a) == ~MulGe(a, MIN_MOVEMENT_E) \/ a.energy <= 1
HerdLeaves(a) == DivGt(a, MAX_MOVEMENT_E) /\ a.energy > 1
HerdKeeps(a) == ~DivGt(a, MAX_MOVEMENT_E) \/ a.energy <= 1

HerdMovement(g, cell, pop) ==
    LET nb == neighbourhood(cell[1], cell[2], NEIGHBORHOOD_E)
        sorted == SortDesc(nb, [k \in 1..Len(nb) |-> at(g, 0, nb[k])])
        best_cell == sorted[1]
    IN  IF Len(nb) = 0 THEN NoMove(cell, pop)
        ELSE IF HerdMoves(g, cell, best_cell, pop)
        THEN MoveResult(cell, best_cell,
                        SelectSeq(pop, HerdRemains), SelectSeq(pop, HerdFollows))
        ELSE IF DivFault(pop) THEN MoveFault(pop)
        ELSE MoveResult(cell, best_cell,
                        SelectSeq(pop, HerdKeeps), SelectSeq(pop, HerdLeaves))

\* the pride moves when its cell holds no Erbast
PrideMoves(g, cell) == at(g, 1, cell) = 0

\* a variant of PrideFollows without the threshold: C21 fails with it
PrideFollowsAny(a) == a.energy > 1

PrideFollows(a) == MulGe(a, MIN_MOVEMENT_C) /\ a.energy > 1
PrideRemains(a) == ~MulGe(a, MIN_MOVEMENT_C) \/ a.energy <= 1
PrideLeaves(a) == ~DivGt(a, MAX_MOVEMENT_C) /\ a.energy > 1
PrideKeeps(a) == DivGt(a, MAX_MOVEMENT_C) \/ a.energy <= 1

\* the cells random.choice(neighbours) may return for the pride of cell;
\* the best cell itself when no random draw is made
PrideTargets(g, cell) ==
    LET nb == neighbourhood(cell[1], cell[2], NEIGHBORHOOD_C)
        sorted == SortDesc(nb, [k \in 1..Len(nb) |-> at(g, 1, nb[k])])
    IN  IF Len(nb) = 0 THEN {cell}
        ELSE IF at(g, 1, sorted[1]) = 0 THEN {nb[k] : k \in 1..Len(nb)}
        ELSE {sorted[1]}

PrideMovement(g, cell, pop, best_cell) ==
    LET nb == neighbourhood(cell[1], cell[2], NEIGHBORHOOD_C)
    IN  IF Len(nb) = 0 THEN NoMove(cell, pop)
        ELSE IF PrideMoves(g, cell)
        THEN MoveResult(cell, best_cell,
                        SelectSeq(pop, PrideRemains), SelectSeq(pop, PrideFollows))
        ELSE IF DivFault(pop) THEN MoveFault(pop)
        ELSE MoveResult(cell, best_cell,
                        SelectSeq(pop, PrideKeeps), SelectSeq(pop, PrideLeaves))

\* a variant of DictAdd that replaces the groups already in the cell: C27
\* fails with it
DictPut(res, t) ==
    LET k == Get(res, t[2]) IN
    IF k = 0 THEN Append(res, Entry(t[2], <<t[1]>>))
    ELSE [res EXCEPT ![k].groups = <<t[1]>>]

\* res[new_cell] = res.get(new_cell, list()) + [group]
DictAdd(res, t) ==
    LET k == Get(res, t[2]) IN
    IF k = 0 THEN Append(res, Entry(t[2], <<t[1]>>))
    ELSE [res EXCEPT ![k].groups = Append(@, t[1])]

RECURSIVE DictAddAll(_, _)
DictAddAll(res, out) ==
    IF out = <<>> THEN res ELSE DictAddAll(DictAdd(res, Head(out)), Tail(out))

\* the dict World.movement builds from the results of the groups 1..n
RECURSIVE Moved_dict(_, _)
Moved_dict(results, n) ==
    IF n = 0 THEN <<>> ELSE DictAddAll(Moved_dict(results, n - 1), results[n].out)

Faults(results) == {k \in 1..Len(results) : results[k].fault}

FirstFault(results) ==
    CHOOSE k \in Faults(results) : \A j \in Faults(results) : k <= j

\* the dict left behind when the movement of group f raised: the groups
\* before f have lost the animals that moved, the dict is not reassigned
Interrupted(dict, results, f) ==
    [k \in 1..Len(dict) |->
        IF k < f THEN [dict[k] EXCEPT !.groups = <<results[k].self>>] ELSE dict[k]]

\* the cells Pride.movement can choose for some pride of the dict
AllTargets(g, dict) ==
    UNION {PrideTargets(g, dict[k].cell) : k \in 1..Len(dict)}

\* a variant of Movement that also counts the animals anew in the grid: C30
\* fails with it
EagerMovement ==
    /\ phase = "overwhelming"
    /\ \E best \in [1..Len(prides) -> AllTargets(grid, prides)] :
        /\ \A k \in 1..Len(prides) : best[k] \in PrideTargets(grid, prides[k].cell)
        /\ LET hr == [k \in 1..Len(herds) |->
                        HerdMovement(grid, herds[k].cell, herds[k].groups[1])]
               pr == [k \in 1..Len(prides) |->
                        PrideMovement(grid, prides[k].cell, prides[k].groups[1], best[k])]
           IN  IF Faults(hr) # {}
               THEN /\ herds' = Interrupted(herds, hr, FirstFault(hr))
                    /\ prides' = prides
                    /\ phase' = "fault"
               ELSE IF Faults(pr) # {}
               THEN /\ herds' = Moved_dict(hr, Len(hr))
                    /\ prides' = Interrupted(prides, pr, FirstFault(pr))
                    /\ phase' = "fault"
               ELSE /\ herds' = Moved_dict(hr, Len(hr))
                    /\ prides' = Moved_dict(pr, Len(pr))
                    /\ phase' = "movement"
    /\ before' = [grid |-> grid, herds |-> herds, prides |-> prides]
    /\ grid' = [grid EXCEPT ![2] = Layer([c \in Cells |-> CountAt(herds', c)]),
                          ![3] = Layer([c \in Cells |-> CountAt(prides', c)])]
    /\ UNCHANGED <<day, ground_cells, pause, event, nextId, births, time_data, world_stats, call>>

\* before records the grid and the dicts World.movement started from, until
\* the day is over
Movement ==
    /\ phase = "overwhelming"
    /\ \E best \in [1..Len(prides) -> AllTargets(grid, prides)] :
        /\ \A k \in 1..Len(prides) : best[k] \in PrideTargets(grid, prides[k].cell)
        /\ LET hr == [k \in 1..Len(herds) |->
                        HerdMovement(grid, herds[k].cell, herds[k].groups[1])]
               pr == [k \in 1..Len(prides) |->
                        PrideMovement(grid, prides[k].cell, prides[k].groups[1], best[k])]
           IN  IF Faults(hr) # {}
               THEN /\ herds' = Interrupted(herds, hr, FirstFault(hr))
                    /\ prides' = prides
                    /\ phase' = "fault"
               ELSE IF Faults(pr) # {}
               THEN /\ herds' = Moved_dict(hr, Len(hr))
                    /\ prides' = Interrupted(prides, pr, FirstFault(pr))
                    /\ phase' = "fault"
               ELSE /\ herds' = Moved_dict(hr, Len(hr))
                    /\ prides' = Moved_dict(pr, Len(pr))
                    /\ phase' = "movement"
    /\ before' = [grid |-> grid, herds |-> herds, prides |-> prides]
    /\ UNCHANGED <<grid, day, ground_cells, pause, event, nextId, births, time_data, world_stats, call>>

(***************************************************************************)
(* Phase 4, Group.join_groups, Herd.unify, Pride.unify, World.unify_groups *)
(***************************************************************************)
RECURSIVE Concat(_)
Concat(group_list) ==
    IF group_list = <<>> THEN <<>> ELSE Head(group_list) \o Concat(Tail(group_list))

\* the slice population[0 : MAX_GROUP + 1]
Slice(pop, MAX_GROUP) == SubSeq(pop, 1, Min(MAX_GROUP + 1, Len(pop)))

join_groups(group_list, MAX_GROUP) ==
    LET population == Concat(group_list) IN
    IF Len(population) > MAX_GROUP
    THEN Slice(SortDesc(population, EnergyKeys(population)), MAX_GROUP)
    ELSE population

HerdUnify(herd_list) == join_groups(herd_list, MAX_HERD)

\* Group.update_stats: the two totals Pride.unify reads
total_energy(pop) == SumSeq(EnergyKeys(pop))

RECURSIVE total_social_attitude(_)
total_social_attitude(pop) ==
    IF pop = <<>> THEN ZERO
    ELSE RAdd(Head(pop).social_attitude, total_social_attitude(Tail(pop)))

\* a variant of PridesJoin with which two prides always fight: C16 fails
\* with it
PridesAlwaysFight(pride1, pride2) == FALSE

PridesJoin(pride1, pride2) ==
    /\ RLt(JOIN_PRIDE, RAdd(total_social_attitude(pride1), total_social_attitude(pride2)))
    /\ Len(pride1) + Len(pride2) < MAX_PRIDE

\* a variant of FightWinners in which equal draws favour the second pride:
\* C34 fails with it
TiesToSecond(pride1, pride2) ==
    {IF v[1] > v[2] THEN 1 ELSE 2 :
        v \in (0..total_energy(pride1)) \X (0..total_energy(pride2))}

\* the winners the two draws random.randint(0, total_energy) can give
FightWinners(pride1, pride2) ==
    {IF v[1] >= v[2] THEN 1 ELSE 2 :
        v \in (0..total_energy(pride1)) \X (0..total_energy(pride2))}

WinFight(pop) ==
    [k \in 1..Len(pop) |->
        [pop[k] EXCEPT !.social_attitude = RMin(RAdd(@, WIN_FIGHT), ONE)]]

\* a variant of PrideRound in which a fight with equal chances has no
\* winner and leaves both prides in the list: C35 fails with it
UndecidedRound(pride_list) ==
    LET sorted == SortAsc(pride_list, [k \in 1..Len(pride_list) |-> Len(pride_list[k])])
        pride1 == sorted[1]
        pride2 == sorted[2]
        rest == SubSeq(sorted, 3, Len(sorted))
    IN  IF PridesJoin(pride1, pride2)
        THEN {<<join_groups(<<pride1, pride2>>, MAX_PRIDE)>> \o rest}
        ELSE IF total_energy(pride1) = total_energy(pride2) THEN {sorted}
        ELSE {<<WinFight(IF w = 1 THEN pride1 ELSE pride2)>> \o rest :
                w \in FightWinners(pride1, pride2)}

\* one round of the while loop of Pride.unify: the lists it can leave
PrideRound(pride_list) ==
    LET sorted == SortAsc(pride_list, [k \in 1..Len(pride_list) |-> Len(pride_list[k])])
        pride1 == sorted[1]
        pride2 == sorted[2]
        rest == SubSeq(sorted, 3, Len(sorted))
    IN  IF PridesJoin(pride1, pride2)
        THEN {<<join_groups(<<pride1, pride2>>, MAX_PRIDE)>> \o rest}
        ELSE {<<WinFight(IF w = 1 THEN pride1 ELSE pride2)>> \o rest :
                w \in FightWinners(pride1, pride2)}

\* Pride.unify: the prides that can be the last one standing
RECURSIVE PrideUnify(_)
PrideUnify(pride_list) ==
    IF Len(pride_list) <= 1 THEN {pride_list[1]}
    ELSE UNION {PrideUnify(l) : l \in PrideRound(pride_list)}

\* World.update_grid: the two animal layers, counted from the dicts
update_grid(g, hs, ps) ==
    [g EXCEPT ![2] = Layer([c \in Cells |-> CountAt(hs, c)]),
              ![3] = Layer([c \in Cells |-> CountAt(ps, c)])]

\* the dicts the loop over self.prides can give for the entries 1..n
RECURSIVE UnifiedPrides(_, _)
UnifiedPrides(dict, n) ==
    IF n = 0 THEN {<<>>}
    ELSE {Append(d, Entry(dict[n].cell, <<p>>)) :
            d \in UnifiedPrides(dict, n - 1), p \in PrideUnify(dict[n].groups)}

\* a variant of UnifiedHerds that leaves the groups of a cell unmerged: C2
\* fails with it, so C2 rests on the merge
UnmergedHerds(dict) == dict

UnifiedHerds(dict) ==
    [k \in 1..Len(dict) |-> Entry(dict[k].cell, <<HerdUnify(dict[k].groups)>>)]

Unify ==
    /\ phase = "movement"
    /\ \E ps \in UnifiedPrides(prides, Len(prides)) :
        LET hs == UnifiedHerds(herds) IN
        /\ herds' = hs
        /\ prides' = ps
        /\ grid' = update_grid(grid, hs, ps)
    /\ phase' = "unify"
    /\ UNCHANGED <<day, ground_cells, pause, event, nextId, births, time_data, world_stats, call, before>>

\* Pride.unify one round at a time.  MaxPrides bounds the prides that meet
\* in the cell; the list starts as Movement can leave it in a world of that
\* many prides, the herds being extinct
MaxPrides == 3

\* the draws <<energy, social_attitude>> of the Carviz of one pride: weak
\* and unsociable ones, or strong and sociable ones
PrideDraws ==
    {[k \in 1..n |-> d] :
        n \in NUM_CARVIZ_LB..NUM_CARVIZ_UB,
        d \in {<<0, <<1, 100>>>>, <<MAX_ENERGY_C, <<99, 100>>>>}}

\* the pride of draws d, its first Carviz having the id firstId
DrawnPride(d, firstId) ==
    [k \in 1..Len(d) |->
        [Specie(firstId + k - 1, d[k][1], MAX_LIFE_C, d[k][2]) EXCEPT !.moved = TRUE]]

InitRounds ==
    /\ ground_cells \in GroundLayouts
    /\ \E draws \in UNION {[1..n -> PrideDraws] : n \in 1..MaxPrides} :
        /\ prides = <<Entry(<<1, 1>>,
                        [k \in 1..Len(draws) |-> DrawnPride(draws[k], FirstId(draws, k, 1))])>>
        /\ nextId = 1 + SumSeq([k \in 1..Len(draws) |-> Len(draws[k])])
    /\ herds = <<>>
    /\ grid = <<Layer([c \in Cells |-> IF c \in ground_cells THEN GROWING ELSE WATER]),
                 Layer([c \in Cells |-> 0]),
                 Layer([c \in Cells |-> 0])>>
    /\ day = 1
    /\ phase = "movement"
    /\ births = <<>>
    /\ time_data = <<>>
    /\ world_stats = NoStats
    /\ call = <<>>
    /\ before = <<>>
    /\ pause = FALSE
    /\ event = "none"

\* one round of the while loop of Pride.unify, on the first list of
\* self.prides that is not reduced yet
UnifyRound ==
    /\ phase = "movement"
    /\ \E k \in 1..Len(prides) :
        /\ Len(prides[k].groups) > 1
        /\ \A j \in 1..(k - 1) : Len(prides[j].groups) = 1
        /\ \E l \in PrideRound(prides[k].groups) :
                prides' = [prides EXCEPT ![k].groups = l]
    /\ UNCHANGED <<grid, herds, day, ground_cells, pause, event, phase, nextId, births,
                   time_data, world_stats, call, before>>

\* the loops are over: unify_groups updates the grid and returns
UnifyReturn ==
    /\ phase = "movement"
    /\ \A k \in 1..Len(prides) : Len(prides[k].groups) = 1
    /\ grid' = update_grid(grid, herds, prides)
    /\ phase' = "unify"
    /\ UNCHANGED <<herds, prides, day, ground_cells, pause, event, nextId, births,
                   time_data, world_stats, call, before>>

NextRounds == UnifyRound \/ UnifyReturn

\* the test of the while loop of Pride.unify holds for some list
RoundPending ==
    phase = "movement" /\ \E k \in 1..Len(prides) : Len(prides[k].groups) > 1

(***************************************************************************)
(* Phase 5, Herd.grazing and World.grazing                                 *)
(***************************************************************************)
IsMoved(a) == a.moved
IsStatic(a) == ~a.moved

\* a variant of Fed that gives two points of energy for one of Vegetob: C31
\* fails with it
Overfed(a) == [a EXCEPT !.energy = @ + 2]

Fed(a) == [a EXCEPT !.energy = @ + 1]
Hungry(a, HUNGER) == [a EXCEPT !.social_attitude = RDiv(@, HUNGER)]

\* a variant of HerdGrazing that feeds the Erbast of highest energy first:
\* C32 fails with it
StrongestFirstGrazing(vegetob, pop) ==
    LET moved_erbast == SelectSeq(pop, IsMoved)
        static_erbast == SelectSeq(pop, IsStatic)
        sorted == SortDesc(static_erbast, EnergyKeys(static_erbast))
    IN  IF vegetob >= Len(static_erbast)
        THEN [population |-> moved_erbast \o
                    [k \in 1..Len(static_erbast) |-> Fed(static_erbast[k])],
              vegetob |-> vegetob - Len(static_erbast)]
        ELSE [population |-> moved_erbast \o
                    [k \in 1..Len(sorted) |->
                        IF k <= vegetob THEN Fed(sorted[k])
                        ELSE Hungry(sorted[k], HUNGER_E)],
              vegetob |-> 0]

\* the population and the Vegetob of the cell after Herd.grazing
HerdGrazing(vegetob, pop) ==
    LET moved_erbast == SelectSeq(pop, IsMoved)
        static_erbast == SelectSeq(pop, IsStatic)
        sorted == SortAsc(static_erbast, EnergyKeys(static_erbast))
    IN  IF vegetob >= Len(static_erbast)
        THEN [population |-> moved_erbast \o
                    [k \in 1..Len(static_erbast) |-> Fed(static_erbast[k])],
              vegetob |-> vegetob - Len(static_erbast)]
        ELSE [population |-> moved_erbast \o
                    [k \in 1..Len(sorted) |->
                        IF k <= vegetob THEN Fed(sorted[k])
                        ELSE Hungry(sorted[k], HUNGER_E)],
              vegetob |-> 0]

Grazing ==
    /\ phase = "unify"
    /\ LET res == [k \in 1..Len(herds) |->
                    HerdGrazing(at(grid, 0, herds[k].cell), herds[k].groups[1])]
       IN  /\ herds' = [k \in 1..Len(herds) |->
                            Entry(herds[k].cell, <<res[k].population>>)]
           /\ grid' = [grid EXCEPT ![1] = Layer([c \in Cells |->
                            IF Get(herds, c) # 0 THEN res[Get(herds, c)].vegetob
                            ELSE at(grid, 0, c)])]
    /\ phase' = "grazing"
    /\ UNCHANGED <<prides, day, ground_cells, pause, event, nextId, births, time_data, world_stats, call, before>>

(***************************************************************************)
(* Phase 6, Pride.hunting and World.hunting                                *)
(***************************************************************************)
\* a variant of PrideShares that drops the spare energy: C15 fails with it
WastefulShares(pop, gained_energy) ==
    LET sorted == SortAsc(pop, EnergyKeys(pop))
        energy_per_carviz == gained_energy \div Len(pop)
    IN  [n \in 1..Len(sorted) |->
            [sorted[n] EXCEPT
                !.energy = Min(@ + energy_per_carviz, MAX_ENERGY_C),
                !.social_attitude = RAdd(@, EAT_C)]]

\* the pride after it has shared gained_energy, weakest Carviz first
PrideShares(pop, gained_energy) ==
    LET sorted == SortAsc(pop, EnergyKeys(pop))
        energy_per_carviz == gained_energy \div Len(pop)
        spare_energy == gained_energy % Len(pop)
    IN  [n \in 1..Len(sorted) |->
            [sorted[n] EXCEPT
                !.energy = Min(@ + energy_per_carviz + (IF n <= spare_energy THEN 1 ELSE 0),
                               MAX_ENERGY_C),
                !.social_attitude = RAdd(@, EAT_C)]]

\* a variant of PrideHunting in which the pride takes the Erbast of lowest
\* energy: C33 fails with it
WeakestHunting(w, k) ==
    LET cell == w.prides[k].cell
        pop == w.prides[k].groups[1]
        h == Get(w.herds, cell)
        hunted == SortAsc(w.herds[h].groups[1], EnergyKeys(w.herds[h].groups[1]))
    IN  IF h = 0
        THEN [w EXCEPT !.prides[k].groups =
                <<[n \in 1..Len(pop) |-> Hungry(pop[n], HUNGER_C)]>>]
        ELSE IF Len(hunted) = 0 THEN [w EXCEPT !.fault = TRUE]
        ELSE IF Len(pop) = 0
        THEN [w EXCEPT !.herds[h].groups = <<Tail(hunted)>>, !.fault = TRUE]
        ELSE [w EXCEPT !.herds[h].groups = <<Tail(hunted)>>,
                       !.prides[k].groups = <<PrideShares(pop, hunted[1].energy)>>,
                       !.grid = put(@, 1, cell, at(@, 1, cell) - 1)]

\* Pride.hunting of the pride of entry k on the world w = [herds, prides,
\* grid, fault]; fault when pop(0) or the division by the size raises
PrideHunting(w, k) ==
    LET cell == w.prides[k].cell
        pop == w.prides[k].groups[1]
        h == Get(w.herds, cell)
        hunted == SortDesc(w.herds[h].groups[1], EnergyKeys(w.herds[h].groups[1]))
    IN  IF h = 0
        THEN [w EXCEPT !.prides[k].groups =
                <<[n \in 1..Len(pop) |-> Hungry(pop[n], HUNGER_C)]>>]
        ELSE IF Len(hunted) = 0 THEN [w EXCEPT !.fault = TRUE]
        ELSE IF Len(pop) = 0
        THEN [w EXCEPT !.herds[h].groups = <<Tail(hunted)>>, !.fault = TRUE]
        ELSE [w EXCEPT !.herds[h].groups = <<Tail(hunted)>>,
                       !.prides[k].groups = <<PrideShares(pop, hunted[1].energy)>>,
                       !.grid = put(@, 1, cell, at(@, 1, cell) - 1)]

\* World.hunting over the prides k..; it stops at the first fault
RECURSIVE HuntingFrom(_, _)
HuntingFrom(w, k) ==
    IF k > Len(w.prides) \/ w.fault THEN w
    ELSE HuntingFrom(PrideHunting(w, k), k + 1)

Hunting ==
    /\ phase = "grazing"
    /\ LET w == HuntingFrom([herds |-> herds, prides |-> prides,
                             grid |-> grid, fault |-> FALSE], 1)
       IN  /\ herds' = w.herds
           /\ prides' = w.prides
           /\ grid' = w.grid
           /\ phase' = IF w.fault THEN "fault" ELSE "hunting"
    /\ UNCHANGED <<day, ground_cells, pause, event, nextId, births, time_data, world_stats, call, before>>

(***************************************************************************)
(* Phase 7, Group.spawning, Herd.spawning, Pride.spawning, World.spawning  *)
(***************************************************************************)
\* the arguments Herd.spawning and Pride.spawning pass to Group.spawning
HerdSpawningArgs ==
    [idx_specie |-> 1, AGING |-> AGING_E, MIN_LIFE |-> MIN_LIFE_E,
     MAX_LIFE |-> MAX_LIFE_E, MAX_GROUP |-> MAX_HERD]

PrideSpawningArgs ==
    [idx_specie |-> 1, AGING |-> AGING_C, MIN_LIFE |-> MIN_LIFE_C,
     MAX_LIFE |-> MAX_LIFE_C, MAX_GROUP |-> MAX_PRIDE]

\* age += 1, and every AGING_PERIOD days of age energy -= AGING
Aged(animal, AGING) ==
    [animal EXCEPT !.age = @ + 1,
                   !.energy = IF (animal.age + 1) % AGING_PERIOD = 0 THEN @ - AGING ELSE @]

Dies(animal, MIN_LIFE) == animal.energy = 0 \/ animal.lifetime < MIN_LIFE

\* the draws of random.randint(1, max(1, energy - 1)): the two ends of
\* the range
EnergyDraws(animal) == {1, Max(1, animal.energy - 1)}

\* the draws of random.randint(1, min(2 * lifetime - 1, MAX_LIFE)): the two
\* ends of the range
LifetimeDraws(animal, MAX_LIFE) == {1, Min(2 * animal.lifetime - 1, MAX_LIFE)}

\* the draws of random.uniform(max(0, 2a - 1), min(2a, 1)): the lower end
\* of the range (the second offspring then gets the upper end)
SplitDraws(animal) ==
    LET twice == RAdd(animal.social_attitude, animal.social_attitude)
    IN  {RMax(ZERO, RSub(twice, ONE))}

\* a variant of Offsprings in which the second offspring loses one unit of
\* the energy of the parent: C9 fails with it
LossyOffsprings(animal, energy1, lifetime1, social_attitude1) ==
    LET one == [energy |-> energy1, lifetime |-> lifetime1,
                social_attitude |-> social_attitude1]
        two == [energy |-> animal.energy - energy1 - 1,
                lifetime |-> 2 * animal.lifetime - lifetime1,
                social_attitude |-> animal.social_attitude]
    IN  IF one.energy >= two.energy THEN <<one, two>> ELSE <<two, one>>

\* the two offsprings of animal for the draws energy1, lifetime1 and
\* social_attitude1, the one with more energy first
Offsprings(animal, energy1, lifetime1, social_attitude1) ==
    LET one == [energy |-> energy1, lifetime |-> lifetime1,
                social_attitude |-> social_attitude1]
        two == [energy |-> animal.energy - energy1,
                lifetime |-> 2 * animal.lifetime - lifetime1,
                social_attitude |->
                    RSub(RAdd(animal.social_attitude, animal.social_attitude),
                         social_attitude1)]
    IN  IF one.energy >= two.energy THEN <<one, two>> ELSE <<two, one>>

create_animal(id, o) == Specie(id, o.energy, o.lifetime, o.social_attitude)

\* the state of Group.spawning in its loop: Ls, the list built so far;
\* grid, the grid; nextId and births as the variables.  births records, for
\* every animal that spawned in the phase, the animal, its two offsprings
\* as computed, the animals created from them and the grid as it was when
\* the room for the second one was tested
Spawns(st, cell, animal, args, off) ==
    LET room == at(st.grid, args.idx_specie, cell) < args.MAX_GROUP
    IN  [st EXCEPT
            !.Ls = IF room
                   THEN @ \o <<create_animal(st.nextId, off[1]),
                               create_animal(st.nextId + 1, off[2])>>
                   ELSE Append(@, create_animal(st.nextId, off[1])),
            !.grid = IF room THEN put(@, args.idx_specie, cell, at(@, args.idx_specie, cell) + 1)
                     ELSE @,
            !.nextId = IF room THEN @ + 2 ELSE @ + 1,
            !.births = Append(@, [parent |-> animal, first |-> off[1], second |-> off[2],
                                  created |-> IF room
                                              THEN <<create_animal(st.nextId, off[1]),
                                                     create_animal(st.nextId + 1, off[2])>>
                                              ELSE <<create_animal(st.nextId, off[1])>>,
                                  cell |-> cell, MAX_LIFE |-> args.MAX_LIFE,
                                  grid |-> st.grid])]

\* a variant of SpawningStep that re-appends every animal, whatever its age:
\* C5 fails with it
CarryingStep(st, cell, animal0, args) ==
    {[st EXCEPT !.Ls = Append(@, Aged(animal0, args.AGING))]}

\* one iteration of the loop of Group.spawning: the states it can leave
SpawningStep(st, cell, animal0, args) ==
    LET animal == Aged(animal0, args.AGING) IN
    IF Dies(animal, args.MIN_LIFE)
    THEN {[st EXCEPT !.grid = put(@, args.idx_specie, cell, at(@, args.idx_specie, cell) - 1)]}
    ELSE IF animal.age = animal.lifetime
    THEN {Spawns(st, cell, animal, args, Offsprings(animal, e, l, a)) :
            e \in EnergyDraws(animal),
            l \in LifetimeDraws(animal, args.MAX_LIFE),
            a \in SplitDraws(animal)}
    ELSE {[st EXCEPT !.Ls = Append(@, animal)]}

RECURSIVE SpawningLoop(_, _, _, _, _)
SpawningLoop(st, cell, pop, n, args) ==
    IF n > Len(pop) THEN {st}
    ELSE UNION {SpawningLoop(st2, cell, pop, n + 1, args) :
                    st2 \in SpawningStep(st, cell, pop[n], args)}

\* Group.spawning on the group of entry k of dict, written back to out
GroupSpawning(w, dict, k, args) ==
    {[grid |-> st.grid, nextId |-> st.nextId, births |-> st.births,
      out |-> Append(w.out, Entry(dict[k].cell, <<st.Ls>>))] :
        st \in SpawningLoop([Ls |-> <<>>, grid |-> w.grid, nextId |-> w.nextId,
                             births |-> w.births],
                            dict[k].cell, dict[k].groups[1], 1, args)}

\* the loop of World.spawning over the groups k.. of one dict
RECURSIVE SpawningFrom(_, _, _, _)
SpawningFrom(w, dict, k, args) ==
    IF k > Len(dict) THEN {w}
    ELSE UNION {SpawningFrom(w2, dict, k + 1, args) :
                    w2 \in GroupSpawning(w, dict, k, args)}

Spawning ==
    /\ phase = "hunting"
    /\ \E wh \in SpawningFrom([grid |-> grid, nextId |-> nextId, births |-> <<>>,
                               out |-> <<>>], herds, 1, HerdSpawningArgs) :
        \E wp \in SpawningFrom([wh EXCEPT !.out = <<>>], prides, 1, PrideSpawningArgs) :
            /\ herds' = wh.out
            /\ prides' = wp.out
            /\ grid' = wp.grid
            /\ nextId' = wp.nextId
            /\ births' = wp.births
    /\ phase' = "spawning"
    /\ UNCHANGED <<day, ground_cells, pause, event, time_data, world_stats, call, before>>

(***************************************************************************)
(* Phase 8, World.remove_empty_groups                                      *)
(***************************************************************************)
\* a variant of remove_empty_groups that removes nothing: C10 fails with it
keep_empty_groups(dict) == dict

remove_empty_groups(dict) == SelectSeq(dict, LAMBDA e : Len(e.groups[1]) # 0)

\* a variant of Cleanup that can also start right after Hunting, before
\* Spawning has run: C13 fails with it
HastyCleanup ==
    /\ phase \in {"hunting", "spawning"}
    /\ herds' = remove_empty_groups(herds)
    /\ prides' = remove_empty_groups(prides)
    /\ phase' = "cleanup"
    /\ UNCHANGED <<grid, day, ground_cells, pause, event, nextId, births, time_data, world_stats, call, before>>

Cleanup ==
    /\ phase = "spawning"
    /\ herds' = remove_empty_groups(herds)
    /\ prides' = remove_empty_groups(prides)
    /\ phase' = "cleanup"
    /\ UNCHANGED <<grid, day, ground_cells, pause, event, nextId, births, time_data, world_stats, call, before>>

(***************************************************************************)
(* Phase 9, World.update_stats, and the day counter                        *)
(***************************************************************************)
\* a variant of update_stats that leaves the grid as the phases of the day
\* left it: C1 fails with it
stale_stats(g, hs, ps) == g

\* the grid layer update_stats writes for one dict
stats_layer(dict) ==
    Layer([c \in Cells |-> IF Get(dict, c) # 0 THEN Len(dict[Get(dict, c)].groups[1]) ELSE 0])

\* a variant of update_stats that writes each layer from the other dict: C19
\* fails with it
crossed_stats(g, hs, ps) == [g EXCEPT ![2] = stats_layer(ps), ![3] = stats_layer(hs)]

update_stats(g, hs, ps) == [g EXCEPT ![2] = stats_layer(hs), ![3] = stats_layer(ps)]

\* Group.update_stats: the other two totals of a population
total_lifetime(pop) == SumSeq([k \in 1..Len(pop) |-> pop[k].lifetime])

total_age(pop) == SumSeq([k \in 1..Len(pop) |-> pop[k].age])

\* np.sum of a layer of the grid
sum_layer(g, idx) == SumSeq([k \in 1..Len(CellSeq) |-> at(g, idx, CellSeq[k])])

\* the reduce over the groups of a dict of (total_energy, total_lifetime,
\* total_age, total_social_attitude)
total_stats(dict) ==
    [energy |-> SumSeq([k \in 1..Len(dict) |-> total_energy(dict[k].groups[1])]),
     lifetime |-> SumSeq([k \in 1..Len(dict) |-> total_lifetime(dict[k].groups[1])]),
     age |-> SumSeq([k \in 1..Len(dict) |-> total_age(dict[k].groups[1])]),
     social_attitude |-> total_social_attitude(Concat([k \in 1..Len(dict) |->
                                                        dict[k].groups[1]]))]

\* the four values appended for one species: the total energy and the three
\* means, all 0 when no animal of the species is left
species_stats(dict, tot) ==
    IF tot > 0
    THEN [energy |-> total_stats(dict).energy,
          lifetime |-> Rat(total_stats(dict).lifetime, tot),
          age |-> Rat(total_stats(dict).age, tot),
          social_attitude |-> RDiv(total_stats(dict).social_attitude, <<tot, 1>>)]
    ELSE [energy |-> 0, lifetime |-> ZERO, age |-> ZERO, social_attitude |-> ZERO]

\* filtered_vegetob.tolist(): the Vegetob of the cells that are not water
vegetob_density(g) ==
    LET ground == SelectSeq(CellSeq, LAMBDA c : at(g, 0, c) >= 0)
    IN  [k \in 1..Len(ground) |-> at(g, 0, ground[k])]

\* a variant of record_stats that appends nothing for a species without
\* animals: C14 fails with it
record_living_stats(ws, g, hs, ps) ==
    LET tot_erbast == sum_layer(g, 1)
        tot_carviz == sum_layer(g, 2)
        e == species_stats(hs, tot_erbast)
        c == species_stats(ps, tot_carviz)
    IN  [ws EXCEPT
            !.erbast_population_data = Append(@, tot_erbast),
            !.carviz_population_data = Append(@, tot_carviz),
            !.vegetob_density_data = vegetob_density(g),
            !.erbast_energy_data = IF tot_erbast > 0 THEN Append(@, e.energy) ELSE @,
            !.erbast_lifetime_data = IF tot_erbast > 0 THEN Append(@, e.lifetime) ELSE @,
            !.erbast_age_data = IF tot_erbast > 0 THEN Append(@, e.age) ELSE @,
            !.erbast_social_attitude_data =
                IF tot_erbast > 0 THEN Append(@, e.social_attitude) ELSE @,
            !.carviz_energy_data = IF tot_carviz > 0 THEN Append(@, c.energy) ELSE @,
            !.carviz_lifetime_data = IF tot_carviz > 0 THEN Append(@, c.lifetime) ELSE @,
            !.carviz_age_data = IF tot_carviz > 0 THEN Append(@, c.age) ELSE @,
            !.carviz_social_attitude_data =
                IF tot_carviz > 0 THEN Append(@, c.social_attitude) ELSE @]

\* the second half of World.update_stats: the series after the day's
\* entries are appended, g being the grid update_stats has just written
record_stats(ws, g, hs, ps) ==
    LET tot_erbast == sum_layer(g, 1)
        tot_carviz == sum_layer(g, 2)
        e == species_stats(hs, tot_erbast)
        c == species_stats(ps, tot_carviz)
    IN  [ws EXCEPT
            !.erbast_population_data = Append(@, tot_erbast),
            !.carviz_population_data = Append(@, tot_carviz),
            !.vegetob_density_data = vegetob_density(g),
            !.erbast_energy_data = Append(@, e.energy),
            !.erbast_lifetime_data = Append(@, e.lifetime),
            !.erbast_age_data = Append(@, e.age),
            !.erbast_social_attitude_data = Append(@, e.social_attitude),
            !.carviz_energy_data = Append(@, c.energy),
            !.carviz_lifetime_data = Append(@, c.lifetime),
            !.carviz_age_data = Append(@, c.age),
            !.carviz_social_attitude_data = Append(@, c.social_attitude)]

\* World.update_stats, then self.day += 1: the call returns
Stats ==
    /\ phase = "cleanup"
    /\ grid' = update_stats(grid, herds, prides)
    /\ time_data' = Append(time_data, day)
    /\ world_stats' = record_stats(world_stats, update_stats(grid, herds, prides),
                                   herds, prides)
    /\ day' = day + 1
    /\ phase' = "stats"
    /\ call' = <<>>
    /\ before' = <<>>
    /\ UNCHANGED <<herds, prides, ground_cells, pause, event, nextId, births>>

(***************************************************************************)
(* World.a_day_on_planysuss: the nine phases in their order                *)
(***************************************************************************)
Next ==
    \/ Growing
    \/ Overwhelming
    \/ Movement
    \/ Unify
    \/ Grazing
    \/ Hunting
    \/ Spawning
    \/ Cleanup
    \/ Stats

Spec == Init /\ [][Next]_vars

SpecZero == InitZero /\ [][Next]_vars

SpecIsle == InitIsle /\ [][Next]_vars

SpecMid == InitMid /\ [][Next]_vars

SpecLean == InitLean /\ [][Next]_vars

SpecGraze == InitGraze /\ [][Next]_vars

SpecFight == InitFight /\ [][Next]_vars

SpecFull == InitFull /\ [][Next]_vars

SpecLayouts == InitLayouts /\ [][Next]_vars

\* the while loop of Pride.unify keeps running until its test fails and
\* unify_groups then returns: weak fairness of UnifyReturn and of UnifyRound,
\* the latter with its enabling condition, RoundPending, written out
SpecRounds ==
    /\ InitRounds /\ [][NextRounds]_vars
    /\ WF_vars(UnifyReturn)
    /\ ([]<>(~RoundPending) \/ []<><<UnifyRound>>_vars)

(***************************************************************************)
(* Simulation.update and Simulation.onKey: the callbacks of the animation  *)
(* and of the keyboard.  Both run on the event loop of the figure, one at  *)
(* a time, so that neither starts while a day is under way.  pause is      *)
(* self.pause and event the event the last callback handled; self.flag,    *)
(* which only selects what is drawn, is left out.                          *)
(***************************************************************************)
\* the keys pressed: the pause key, the two keys of the manual update and
\* one key of the view
KeyDraws == {" ", "u", "U", "r"}

\* Simulation.update, called for a frame of FuncAnimation
update ==
    /\ phase \in {"init", "stats"}
    /\ event' = "frame"
    /\ UNCHANGED pause
    /\ IF ~pause
       THEN a_day_on_planysuss
       ELSE UNCHANGED <<grid, herds, prides, day, ground_cells, phase, nextId,
                        births, time_data, world_stats, call, before>>

\* Simulation.onKey: `event.key == 'u' or event.key == 'U' and self.pause`
\* groups as `'u' or ('U' and self.pause)`
onKey(key) ==
    /\ phase \in {"init", "stats"}
    /\ event' = key
    /\ pause' = IF key = " " THEN ~pause ELSE pause
    /\ IF key = "u" \/ (key = "U" /\ pause' = TRUE)
       THEN a_day_on_planysuss
       ELSE UNCHANGED <<grid, herds, prides, day, ground_cells, phase, nextId,
                        births, time_data, world_stats, call, before>>

KeyPress == \E key \in KeyDraws : onKey(key)

\* the callbacks, and the phases of the day a callback has started
NextKeys ==
    \/ update
    \/ KeyPress
    \/ Overwhelming
    \/ Movement
    \/ Unify
    \/ Grazing
    \/ Hunting
    \/ Spawning
    \/ Cleanup
    \/ Stats

SpecKeys == InitLayouts /\ [][NextKeys]_vars

(***************************************************************************)
(* Simulation.update_table: the detail of the cell the user clicked        *)
(***************************************************************************)
\* round(x, 1) of the quotient q = <<n, d>>, in tenths: the nearest tenth,
\* the even one of two equally near
Round1(q) ==
    LET t == (10 * q[1]) \div q[2]
        r == (10 * q[1]) % q[2]
    IN  IF 2 * r > q[2] \/ (2 * r = q[2] /\ t % 2 = 1) THEN t + 1 ELSE t

\* np.zeros((5, 4), dtype=str).tolist(): the table of a water cell
EmptyTable == [i \in 1..5 |-> [j \in 1..4 |-> ""]]

ZeroRow == <<0, 0, 0, 0, 0>>

\* the row of a group: its size and the totals Group.update_stats cached;
\* fresh is FALSE in the initial world, where the totals are those of
\* Group.__init__, and TRUE once World.update_stats has run
GroupRow(pop, fresh) ==
    LET total_population == Len(pop)
        cached(total) == IF fresh THEN total ELSE 0
        rcached(total) == IF fresh THEN total ELSE ZERO
    IN  <<total_population,
          cached(total_energy(pop)),
          Round1(<<cached(total_lifetime(pop)), total_population>>),
          Round1(<<cached(total_age(pop)), total_population>>),
          Round1(RDiv(rcached(total_social_attitude(pop)), <<total_population, 1>>))>>

\* the row of one species: a KeyError when the layer counts animals the dict
\* has no entry for, a ZeroDivisionError when the entry has no animal
SpeciesRow(g, idx, dict, fresh, cell) ==
    IF at(g, idx, cell) = 0 THEN [fault |-> FALSE, row |-> ZeroRow]
    ELSE IF Get(dict, cell) = 0 THEN [fault |-> TRUE, row |-> <<>>]
    ELSE IF Len(dict[Get(dict, cell)].groups[1]) = 0 THEN [fault |-> TRUE, row |-> <<>>]
    ELSE [fault |-> FALSE, row |-> GroupRow(dict[Get(dict, cell)].groups[1], fresh)]

\* the outcome of update_table for the cell: a fault, or the data of the
\* table (the rows of Erbast, Carviz and Vegetob before the transposition)
update_table(g, hs, ps, fresh, cell) ==
    LET total_vegetob == at(g, 0, cell)
        erbast_row == SpeciesRow(g, 1, hs, fresh, cell)
        carviz_row == SpeciesRow(g, 2, ps, fresh, cell)
    IN  IF total_vegetob = WATER
        THEN [fault |-> FALSE, water |-> TRUE, new_data |-> EmptyTable]
        ELSE IF erbast_row.fault \/ carviz_row.fault
        THEN [fault |-> TRUE, water |-> FALSE, new_data |-> <<>>]
        ELSE [fault |-> FALSE, water |-> FALSE,
              new_data |-> <<erbast_row.row, carviz_row.row,
                             <<total_vegetob, 0, 0, 0, 0>>>>]

(***************************************************************************)
(* Verification                                                            *)
(***************************************************************************)
\* the populations of all the groups of a dict, and all its animals
Groups(dict) ==
    UNION {{dict[k].groups[g] : g \in 1..Len(dict[k].groups)} : k \in 1..Len(dict)}

Animals(dict) == UNION {{pop[k] : k \in 1..Len(pop)} : pop \in Groups(dict)}

\* each cell is the key of at most one entry, whose value is one group
SingleValued(dict) ==
    /\ \A k \in 1..Len(dict) : Len(dict[k].groups) = 1
    /\ \A j, k \in 1..Len(dict) : dict[j].cell = dict[k].cell => j = k

BetweenDays == phase \in {"init", "stats"}

\* C1: in the initial world and after Cleanup and Stats of every completed
\* day, in every cell the herbivore layer of the grid is the size of the herd
\* of the cell and the carnivore layer the size of the pride (0 without one)
C1_GridMatchesGroups ==
    BetweenDays =>
        \A c \in Cells : /\ at(grid, 1, c) = CountAt(herds, c)
                         /\ at(grid, 2, c) = CountAt(prides, c)

\* a day is completed in which animals spawned in a cell with a herd and a
\* pride
C1_Witness ==
    /\ phase = "stats"
    /\ births # <<>>
    /\ \E c \in Cells : CountAt(herds, c) > 0 /\ CountAt(prides, c) > 0

\* C2: after Unify and until the next Movement (so at every day boundary)
\* every cell holds at most one herd and at most one pride, each map value
\* being a single group
C2_OneGroupPerCell ==
    phase \in {"init", "growing", "overwhelming", "unify", "grazing", "hunting",
               "spawning", "cleanup", "stats"}
        => SingleValued(herds) /\ SingleValued(prides)

\* Unify has pooled residents and arrivals into the one herd of a cell
C2_Witness ==
    /\ phase = "unify"
    /\ \E pop \in Groups(herds) : \E j, k \in 1..Len(pop) : pop[j].moved /\ ~pop[k].moved

\* C3, as claimed: after every phase every animal has
\* 0 <= energy <= the maximum energy of its species
C3_EnergyInRange ==
    /\ \A a \in Animals(herds) : 0 <= a.energy /\ a.energy <= MAX_ENERGY_E
    /\ \A a \in Animals(prides) : 0 <= a.energy /\ a.energy <= MAX_ENERGY_C

\* C4, as claimed: after every phase every animal has
\* 0 <= social_attitude <= 1
C4_AttitudeInRange ==
    \A a \in Animals(herds) \cup Animals(prides) :
        RLe(ZERO, a.social_attitude) /\ RLe(a.social_attitude, ONE)

\* C5: after every phase every animal has 0 <= age <= lifetime, and none is
\* carried over with age >= lifetime
C5_AgeBelowLifetime ==
    \A a \in Animals(herds) \cup Animals(prides) :
        0 <= a.age /\ a.age <= a.lifetime /\ a.age < a.lifetime

\* an animal has reached its lifetime in Spawning (age = lifetime) and is
\* gone from the maps, its offspring of age 0 taking its place
C5_Witness ==
    /\ phase = "spawning"
    /\ \E k \in 1..Len(births) :
        /\ births[k].parent.age = births[k].parent.lifetime
        /\ \A a \in Animals(herds) \cup Animals(prides) : a.id # births[k].parent.id
        /\ \E a \in Animals(herds) \cup Animals(prides) :
                a.id = births[k].created[1].id /\ a.age = 0

\* C6, as claimed: every animal, and each of the two offsprings computed for
\* an animal that spawns, has 1 <= lifetime <= the maximum lifetime of its
\* species
C6_LifetimeInRange ==
    /\ \A a \in Animals(herds) : 1 <= a.lifetime /\ a.lifetime <= MAX_LIFE_E
    /\ \A a \in Animals(prides) : 1 <= a.lifetime /\ a.lifetime <= MAX_LIFE_C
    /\ \A k \in 1..Len(births) :
        /\ 1 <= births[k].first.lifetime /\ births[k].first.lifetime <= births[k].MAX_LIFE
        /\ 1 <= births[k].second.lifetime /\ births[k].second.lifetime <= births[k].MAX_LIFE

\* C7, as claimed: after Unify every herd has at most MAX_HERD members and
\* every pride at most MAX_PRIDE members
C7_CapAfterUnify ==
    phase = "unify" =>
        /\ \A pop \in Groups(herds) : Len(pop) <= MAX_HERD
        /\ \A pop \in Groups(prides) : Len(pop) <= MAX_PRIDE

\* C8, as claimed: Spawning never grows a group past the cap of its species:
\* after Spawning a herd has at most MAX_HERD members and a pride at most
\* MAX_PRIDE members.  Stated on the step of Spawning, and allowing a group
\* that Unify already left above its cap (C7) to keep its size, so that
\* only growth by reproduction is judged
C8_CapAfterSpawning ==
    [][phase' = "spawning" =>
        /\ \A k \in 1..Len(herds) :
            Len(herds'[k].groups[1]) <= Max(MAX_HERD, Len(herds[k].groups[1]))
        /\ \A k \in 1..Len(prides) :
            Len(prides'[k].groups[1]) <= Max(MAX_PRIDE, Len(prides[k].groups[1]))]_vars

\* C9: the two offsprings computed for an animal that spawns share its
\* energy exactly, their lifetimes add up to twice its lifetime, and the
\* animals created from them have age 0
C9_OffspringSplit ==
    \A k \in 1..Len(births) :
        /\ births[k].first.energy + births[k].second.energy = births[k].parent.energy
        /\ births[k].first.lifetime + births[k].second.lifetime
                = 2 * births[k].parent.lifetime
        /\ \A n \in 1..Len(births[k].created) : births[k].created[n].age = 0

\* an animal has spawned both its offsprings, of different energies
C9_Witness ==
    /\ phase = "spawning"
    /\ \E k \in 1..Len(births) :
        /\ Len(births[k].created) = 2
        /\ births[k].first.energy > births[k].second.energy

\* C10: after Cleanup (so at every day boundary) no herd and no pride of the
\* maps has an empty population
C10_NoEmptyGroup ==
    phase \in {"init", "cleanup", "stats"} =>
        \A pop \in Groups(herds) \cup Groups(prides) : Len(pop) > 0

\* Cleanup has dropped the last herd of the world
C10_Witness == phase = "cleanup" /\ day = 1 /\ herds = <<>>

\* the animals of all the groups of a dict, one after the other
Members(dict) == Concat([k \in 1..Len(dict) |-> Concat(dict[k].groups)])

\* C11: after every phase no animal belongs to two groups and none appears
\* twice in a population: the animals of all the herds and prides, listed
\* group by group, are pairwise distinct
C11_AgentsUnique ==
    LET all == Members(herds) \o Members(prides) IN
    \A i, j \in 1..Len(all) : i # j => all[i].id # all[j].id

\* Movement has brought the Erbast that left one cell into a cell where
\* another herd stays: two herds are in the cell
C11_Witness ==
    /\ phase = "movement"
    /\ \E k \in 1..Len(herds) :
        /\ Len(herds[k].groups) = 2
        /\ \E a \in Animals(<<herds[k]>>) : a.moved
        /\ \E a \in Animals(<<herds[k]>>) : ~a.moved

\* C12, as claimed: a day never ends in a fault: no phase raises
C12_NoFault == phase # "fault"

\* the phases in the order of the calls of a_day_on_planysuss
PhaseOrder ==
    <<"growing", "overwhelming", "movement", "unify", "grazing", "hunting",
      "spawning", "cleanup", "stats">>

\* C13: every step is one whole phase, and a phase is only ever followed
\* by the next one of Growing, Overwhelming, Movement, Unify, Grazing,
\* Hunting, Spawning, Cleanup, Stats (Growing following the initial world
\* or the Stats of the day before); the day counter changes only in the
\* step of Stats, by one, and so does the recorded day sequence
C13_PhaseOrder ==
    [][/\ phase' # phase
       /\ phase' # "fault" =>
            \E n \in 1..Len(PhaseOrder) :
                /\ phase' = PhaseOrder[n]
                /\ IF n = 1 THEN phase \in {"init", "stats"} ELSE phase = PhaseOrder[n - 1]
       /\ (day' # day \/ time_data' # time_data) =>
            phase = "cleanup" /\ phase' = "stats" /\ day' = day + 1]_vars

\* a whole day has run, from Growing to Stats, and the second has begun
C13_Witness == phase = "growing" /\ day = 2 /\ time_data = <<1>>

\* the series with one entry per day
DailySeries ==
    <<world_stats.erbast_population_data, world_stats.carviz_population_data,
      world_stats.erbast_energy_data, world_stats.erbast_lifetime_data,
      world_stats.erbast_age_data, world_stats.erbast_social_attitude_data,
      world_stats.carviz_energy_data, world_stats.carviz_lifetime_data,
      world_stats.carviz_age_data, world_stats.carviz_social_attitude_data>>

\* C14: the day counter is 1 in the initial world and k + 1 after k
\* completed days; the recorded day sequence is then 1, 2, ..., k and each
\* per-day series of either species has exactly k entries
C14_DayCounter ==
    /\ phase = "init" => day = 1
    /\ BetweenDays =>
        /\ time_data = [k \in 1..(day - 1) |-> k]
        /\ \A n \in 1..Len(DailySeries) : Len(DailySeries[n]) = day - 1

\* two days are completed, and on the second no Erbast was left, so that
\* zeros were recorded for the species
C14_Witness ==
    /\ phase = "stats"
    /\ day = 3
    /\ world_stats.erbast_population_data[1] > 0
    /\ world_stats.erbast_population_data[2] = 0
    /\ world_stats.carviz_population_data[2] > 0

\* the highest energy among the animals of a population
HighestEnergy(pop) ==
    CHOOSE e \in {pop[k].energy : k \in 1..Len(pop)} :
        \A k \in 1..Len(pop) : pop[k].energy <= e

\* the animal of a population with the given id
WithId(pop, id) == pop[CHOOSE k \in 1..Len(pop) : pop[k].id = id]

\* C15: in Hunting, a pride of n Carviz in a cell with a herd whose strongest
\* Erbast has energy E keeps its n members; each gains E div n, and E mod n
\* members, none stronger than a member outside them, gain one more, every
\* gain being cut at MAX_ENERGY_C; when no gain is cut the energy of the
\* pride grows by exactly E
C15_HuntingShares ==
    [][phase' = "hunting" =>
        \A k \in 1..Len(prides) :
            LET pop == prides[k].groups[1]
                after == prides'[k].groups[1]
                n == Len(pop)
                h == Get(herds, prides[k].cell)
                ids == {pop[j].id : j \in 1..n}
            IN  h # 0 =>
                LET E == HighestEnergy(herds[h].groups[1]) IN
                /\ Len(after) = n
                /\ {after[j].id : j \in 1..n} = ids
                /\ \E X \in SUBSET ids :
                    /\ Cardinality(X) = E % n
                    /\ \A x \in X, y \in ids \ X :
                            WithId(pop, x).energy <= WithId(pop, y).energy
                    /\ \A a \in ids :
                            WithId(after, a).energy =
                                Min(WithId(pop, a).energy + (E \div n)
                                        + (IF a \in X THEN 1 ELSE 0),
                                    MAX_ENERGY_C)
                /\ (\A a \in ids : WithId(pop, a).energy + (E \div n) + 1 <= MAX_ENERGY_C)
                        => total_energy(after) = total_energy(pop) + E]_vars

\* on the first day a pride of two Carviz without energy has hunted an
\* Erbast of energy 3: one has gained 2 and the other 1
C15_Witness ==
    /\ phase = "hunting"
    /\ day = 1
    /\ \E pop \in Groups(prides) :
            Len(pop) = 2 /\ pop[1].energy = 2 /\ pop[2].energy = 1

\* the ids of the animals of a population
Ids(pop) == {pop[k].id : k \in 1..Len(pop)}

\* C16: in Unify, two prides that share a cell, whose social attitudes sum
\* above JOIN_PRIDE and whose populations together stay below MAX_PRIDE,
\* are replaced by one pride with exactly the Carviz of both, each with the
\* social attitude it had
C16_PridesJoin ==
    [][phase' = "unify" =>
        \A k \in 1..Len(prides) :
            LET pride_list == prides[k].groups IN
            (/\ Len(pride_list) = 2
             /\ RLt(JOIN_PRIDE, RAdd(total_social_attitude(pride_list[1]),
                                     total_social_attitude(pride_list[2])))
             /\ Len(pride_list[1]) + Len(pride_list[2]) < MAX_PRIDE)
            => LET both == pride_list[1] \o pride_list[2]
                   after == prides'[k].groups
               IN  /\ Len(after) = 1
                   /\ Len(after[1]) = Len(pride_list[1]) + Len(pride_list[2])
                   /\ Ids(after[1]) = Ids(both)
                   /\ \A a \in Ids(both) :
                        WithId(after[1], a).social_attitude
                            = WithId(both, a).social_attitude]_vars

\* after Unify a pride holds two Carviz that began the day in two cells
C16_Witness ==
    /\ phase = "unify"
    /\ \E k \in 1..Len(prides) :
        /\ Len(prides[k].groups) = 1
        /\ Len(prides[k].groups[1]) = 2
        /\ \E i, j \in 1..Len(call.prides) :
            /\ i # j
            /\ prides[k].groups[1][1].id \in Ids(Concat(call.prides[i].groups))
            /\ prides[k].groups[1][2].id \in Ids(Concat(call.prides[j].groups))

\* the cells of the first and last row and column
Border ==
    {c \in Cells : c[1] \in {0, NUMCELLS_R - 1} \/ c[2] \in {0, NUMCELLS_C - 1}}

\* C17: always, the Vegetob of a ground cell is an integer from 0 to
\* MAX_VEGETOB, every other cell, the border included, holds WATER, and no
\* step changes the ground cells
C17_Vegetation ==
    /\ [](/\ \A c \in Cells :
                IF c \in ground_cells
                THEN at(grid, 0, c) \in 0..MAX_VEGETOB
                ELSE at(grid, 0, c) = WATER
          /\ Border \cap ground_cells = {})
    /\ [][ground_cells' = ground_cells]_vars

\* after Grazing one ground cell is at the cap and another, where an Erbast
\* that did not move went hungry, is at 0
C17_Witness ==
    /\ phase = "grazing"
    /\ \E c \in ground_cells : at(grid, 0, c) = MAX_VEGETOB
    /\ \E k \in 1..Len(herds) :
        /\ at(grid, 0, herds[k].cell) = 0
        /\ \E a \in Animals(<<herds[k]>>) :
                ~a.moved /\ RLt(a.social_attitude, <<1, 100>>)

\* C18: when a call of a_day_on_planysuss ends in a fault, the world is the
\* one the call began with
C18_AllOrNothing == phase = "fault" => World = call

\* the detail of a cell, asked for in the current state
Detail(cell) == update_table(grid, herds, prides, phase # "init", cell)

\* C19: between days the detail of every cell is defined: that of a water
\* cell is the empty table, and on a ground cell a layer that counts animals
\* has an entry of the dict with at least one animal behind it
C19_DetailDefined ==
    BetweenDays =>
        \A c \in Cells :
            /\ ~Detail(c).fault
            /\ IF c \notin ground_cells
               THEN Detail(c).water /\ Detail(c).new_data = EmptyTable
               ELSE /\ ~Detail(c).water
                    /\ at(grid, 1, c) # 0 =>
                        Get(herds, c) # 0 /\ Len(herds[Get(herds, c)].groups[1]) # 0
                    /\ at(grid, 2, c) # 0 =>
                        Get(prides, c) # 0 /\ Len(prides[Get(prides, c)].groups[1]) # 0

\* after a completed day a ground cell holds Carviz and no Erbast, and its
\* detail shows the size of the pride
C19_Witness ==
    /\ phase = "stats"
    /\ \E c \in ground_cells :
        /\ at(grid, 1, c) = 0
        /\ at(grid, 2, c) # 0
        /\ ~Detail(c).fault
        /\ Detail(c).new_data[2][1] = at(grid, 2, c)

\* C20: in Movement, in a herd or pride that has a neighbour cell and
\* decides to stay, an animal leaves exactly when its energy is above 1 and
\* its energy divided by its social attitude is above MAX_MOVEMENT
C20_StayRule ==
    [][phase' = "movement" =>
        /\ \A k \in 1..Len(herds) :
            LET cell == herds[k].cell
                pop == herds[k].groups[1]
                nb == neighbourhood(cell[1], cell[2], NEIGHBORHOOD_E)
                sorted == SortDesc(nb, [n \in 1..Len(nb) |-> at(grid, 0, nb[n])])
            IN  (Len(nb) > 0 /\ ~HerdMoves(grid, cell, sorted[1], pop)) =>
                \A n \in 1..Len(pop) :
                    WithId(Members(herds'), pop[n].id).moved
                        <=> (pop[n].energy > 1 /\ DivGt(pop[n], MAX_MOVEMENT_E))
        /\ \A k \in 1..Len(prides) :
            LET cell == prides[k].cell
                pop == prides[k].groups[1]
                nb == neighbourhood(cell[1], cell[2], NEIGHBORHOOD_C)
            IN  (Len(nb) > 0 /\ ~PrideMoves(grid, cell)) =>
                \A n \in 1..Len(pop) :
                    WithId(Members(prides'), pop[n].id).moved
                        <=> (pop[n].energy > 1 /\ DivGt(pop[n], MAX_MOVEMENT_C))]_vars

\* the cells of the entries of a dict that hold the animal
Where(dict, id) ==
    {dict[k].cell : k \in {n \in 1..Len(dict) : id \in Ids(Concat(dict[n].groups))}}

\* the neighbour cell a herd moves to: the first of those with most Vegetob
BestCell(g, cell) ==
    LET nb == neighbourhood(cell[1], cell[2], NEIGHBORHOOD_E)
    IN  SortDesc(nb, [n \in 1..Len(nb) |-> at(g, 0, nb[n])])[1]

HasNeighbour(cell, radius) == Len(neighbourhood(cell[1], cell[2], radius)) > 0

\* the decision of the herd, and of the pride, of a cell that has a neighbour
HerdDecidesMove(g, cell, pop) ==
    /\ HasNeighbour(cell, NEIGHBORHOOD_E)
    /\ at(g, 0, cell) < Len(pop)
    /\ at(g, 0, cell) < at(g, 0, BestCell(g, cell))

PrideDecidesMove(g, cell) ==
    HasNeighbour(cell, NEIGHBORHOOD_C) /\ at(g, 1, cell) = 0

\* the animal is, after Movement, in a cell other than cell and no longer in
\* cell; or it is in cell and nowhere else
Left(dict, cell, id) == Where(dict, id) # {} /\ cell \notin Where(dict, id)

Remained(dict, cell, id) == Where(dict, id) = {cell}

\* C21: after Movement, of a herd or pride that decided to move, the animals
\* with energy above 1 and energy * social_attitude >= MIN_MOVEMENT are in
\* another cell, and all the others are still in the cell of the group
C21_FollowRule ==
    phase = "movement" =>
        /\ \A k \in 1..Len(before.herds) :
            LET cell == before.herds[k].cell
                pop == before.herds[k].groups[1]
            IN  HerdDecidesMove(before.grid, cell, pop) =>
                \A n \in 1..Len(pop) :
                    IF pop[n].energy > 1 /\ MulGe(pop[n], MIN_MOVEMENT_E)
                    THEN Left(herds, cell, pop[n].id)
                    ELSE Remained(herds, cell, pop[n].id)
        /\ \A k \in 1..Len(before.prides) :
            LET cell == before.prides[k].cell
                pop == before.prides[k].groups[1]
            IN  PrideDecidesMove(before.grid, cell) =>
                \A n \in 1..Len(pop) :
                    IF pop[n].energy > 1 /\ MulGe(pop[n], MIN_MOVEMENT_C)
                    THEN Left(prides, cell, pop[n].id)
                    ELSE Remained(prides, cell, pop[n].id)

\* a herd that decided to move has split: one Erbast followed, one remained
C21_Witness ==
    /\ phase = "movement"
    /\ \E k \in 1..Len(before.herds) :
        LET cell == before.herds[k].cell
            pop == before.herds[k].groups[1]
        IN  /\ HerdDecidesMove(before.grid, cell, pop)
            /\ \E n \in 1..Len(pop) : Left(herds, cell, pop[n].id)
            /\ \E n \in 1..Len(pop) : Remained(herds, cell, pop[n].id)

\* the groups of a dict that hold an animal of the population
GroupsOf(dict, pop) ==
    {t \in {<<k, g>> : k \in 1..Len(dict), g \in 1..MAX_HERD + MAX_PRIDE} :
        /\ t[2] <= Len(dict[t[1]].groups)
        /\ Ids(dict[t[1]].groups[t[2]]) \cap Ids(pop) # {}}

\* the group is, after Movement, one group of its cell, as it was
Unmoved(dict, cell, pop) ==
    /\ Cardinality(GroupsOf(dict, pop)) = 1
    /\ \A t \in GroupsOf(dict, pop) :
            dict[t[1]].cell = cell /\ dict[t[1]].groups[t[2]] = pop

\* C22: after Movement, a herd with a neighbour cell has acted on the
\* decision to move (its followers left) exactly when its cell had less
\* Vegetob than Erbast and less than its best neighbour, a pride with a
\* neighbour cell exactly when its cell held no Erbast, and otherwise on the
\* decision to stay (the animals the stay rule of the species selects
\* left); a group without neighbour cell is one unchanged group of its cell
C22_GroupDecision ==
    phase = "movement" =>
        /\ \A k \in 1..Len(before.herds) :
            LET cell == before.herds[k].cell
                pop == before.herds[k].groups[1]
                veg == at(before.grid, 0, cell)
            IN  IF ~HasNeighbour(cell, NEIGHBORHOOD_E)
                THEN Unmoved(herds, cell, pop)
                ELSE IF veg < Len(pop) /\ veg < at(before.grid, 0, BestCell(before.grid, cell))
                THEN \A n \in 1..Len(pop) :
                        Left(herds, cell, pop[n].id) <=> HerdFollows(pop[n])
                ELSE \A n \in 1..Len(pop) :
                        Left(herds, cell, pop[n].id) <=> HerdLeaves(pop[n])
        /\ \A k \in 1..Len(before.prides) :
            LET cell == before.prides[k].cell
                pop == before.prides[k].groups[1]
            IN  IF ~HasNeighbour(cell, NEIGHBORHOOD_C)
                THEN Unmoved(prides, cell, pop)
                ELSE IF at(before.grid, 1, cell) = 0
                THEN \A n \in 1..Len(pop) :
                        Left(prides, cell, pop[n].id) <=> PrideFollows(pop[n])
                ELSE \A n \in 1..Len(pop) :
                        Left(prides, cell, pop[n].id) <=> PrideLeaves(pop[n])

\* after Movement the herd of the cell without neighbour is where it was
\* and a Carviz of a pride that decided to move has left its cell
C22_Witness ==
    /\ phase = "movement"
    /\ \E k \in 1..Len(before.herds) :
        /\ ~HasNeighbour(before.herds[k].cell, NEIGHBORHOOD_E)
        /\ Unmoved(herds, before.herds[k].cell, before.herds[k].groups[1])
    /\ \E k \in 1..Len(before.prides) :
        /\ PrideDecidesMove(before.grid, before.prides[k].cell)
        /\ \E n \in 1..Len(before.prides[k].groups[1]) :
                Left(prides, before.prides[k].cell, before.prides[k].groups[1][n].id)

\* the mean social attitude of a population
mean_social_attitude(pop) == RDiv(total_social_attitude(pop), <<Len(pop), 1>>)

\* C23: in Unify, the two prides of a cell become one pride of all their
\* Carviz (they join) exactly when their mean social attitudes sum above
\* JOIN_PRIDE and they have fewer than MAX_PRIDE Carviz together; otherwise
\* the pride left is one of the two (they fight)
C23_JoinOnMeans ==
    [][phase' = "unify" =>
        \A k \in 1..Len(prides) :
            LET pride_list == prides[k].groups IN
            Len(pride_list) = 2 =>
                LET pride1 == pride_list[1]
                    pride2 == pride_list[2]
                    after == prides'[k].groups[1]
                IN  IF /\ RLt(JOIN_PRIDE, RAdd(mean_social_attitude(pride1),
                                               mean_social_attitude(pride2)))
                       /\ Len(pride1) + Len(pride2) < MAX_PRIDE
                    THEN Ids(after) = Ids(pride1) \cup Ids(pride2)
                    ELSE Ids(after) \in {Ids(pride1), Ids(pride2)}]_vars

\* the animal was an Erbast when Movement began
IsErbast(a) == a.id \in Ids(Members(before.herds))

\* C24: after Spawning, for every animal that spawned, the offspring with
\* no less energy than the other was created, and the other one was created
\* exactly when the grid counted, in the cell, fewer animals of the species
\* of the parent than the cap of that species
C24_SecondOffspring ==
    phase = "spawning" =>
        \A k \in 1..Len(births) :
            LET b == births[k]
                count == at(b.grid, IF IsErbast(b.parent) THEN 1 ELSE 2, b.cell)
                cap == IF IsErbast(b.parent) THEN MAX_HERD ELSE MAX_PRIDE
            IN  /\ b.first.energy >= b.second.energy
                /\ Len(b.created) >= 1
                /\ b.created[1].energy = b.first.energy
                /\ Len(b.created) = 2 <=> count < cap

\* the animals of the group of the cell that Spawning terminates: those
\* with no energy after aging or with a lifetime below MIN_LIFE
Dying(dict, cell, AGING, MIN_LIFE) ==
    IF Get(dict, cell) = 0 THEN {}
    ELSE {a \in Animals(<<dict[Get(dict, cell)]>>) :
            Aged(a, AGING).energy = 0 \/ a.lifetime < MIN_LIFE}

\* C25: in Spawning, an animal with no energy after aging or with too short
\* a lifetime is removed and has no offspring; in a cell where no animal
\* spawns, the count of each species falls by the number of its animals so
\* removed, and by nothing else
C25_DeathCount ==
    [][phase' = "spawning" =>
        \A c \in ground_cells :
            LET dying_erbast == Dying(herds, c, AGING_E, MIN_LIFE_E)
                dying_carviz == Dying(prides, c, AGING_C, MIN_LIFE_C)
            IN  /\ \A a \in dying_erbast \cup dying_carviz :
                    /\ a.id \notin Ids(Members(herds')) \cup Ids(Members(prides'))
                    /\ \A k \in 1..Len(births') : births'[k].parent.id # a.id
                /\ (\A k \in 1..Len(births') : births'[k].cell # c) =>
                    /\ at(grid', 1, c) = at(grid, 1, c) - Cardinality(dying_erbast)
                    /\ at(grid', 2, c) = at(grid, 2, c) - Cardinality(dying_carviz)]_vars

\* C26: the two offsprings computed for an animal that spawns have energy 1
\* or more, and so has every animal created from them
C26_OffspringEnergy ==
    \A k \in 1..Len(births) :
        /\ births[k].first.energy >= 1
        /\ births[k].second.energy >= 1
        /\ \A n \in 1..Len(births[k].created) : births[k].created[n].energy >= 1

\* the animals of a group of before are, after Movement, each in one cell:
\* the cell of the group or one other cell, the same for all that left
InTwoGroups(dict, cell, pop) ==
    \E d \in ground_cells \ {cell} :
        \A n \in 1..Len(pop) : Where(dict, pop[n].id) \in {{cell}, {d}}

\* C27: after Movement each dict holds exactly the animals it held before,
\* each once; the animals of a group are in its cell or in one other cell;
\* and no group of the dicts is empty
C27_MovementKeepsAgents ==
    phase = "movement" =>
        /\ Ids(Members(herds)) = Ids(Members(before.herds))
        /\ Len(Members(herds)) = Len(Members(before.herds))
        /\ Ids(Members(prides)) = Ids(Members(before.prides))
        /\ Len(Members(prides)) = Len(Members(before.prides))
        /\ \A k \in 1..Len(before.herds) :
                InTwoGroups(herds, before.herds[k].cell, before.herds[k].groups[1])
        /\ \A k \in 1..Len(before.prides) :
                InTwoGroups(prides, before.prides[k].cell, before.prides[k].groups[1])
        /\ \A pop \in Groups(herds) \cup Groups(prides) : Len(pop) > 0

\* after Movement a cell holds two prides, one of which arrived from a cell
\* that is left without pride
C27_Witness ==
    /\ phase = "movement"
    /\ \E k \in 1..Len(prides) : Len(prides[k].groups) = 2
    /\ \E k \in 1..Len(before.prides) : before.prides[k].cell \notin Keys(prides)

PaidInMovement(dict_before, dict) ==
    \A k \in 1..Len(dict_before) :
        \A a \in Animals(<<dict_before[k]>>) :
            LET energy == WithId(Members(dict), a.id).energy IN
            IF Left(dict, dict_before[k].cell, a.id)
            THEN energy = a.energy - 1 /\ energy >= 1
            ELSE energy = a.energy

\* C29: after Movement every animal that is in another cell than before has
\* one point of energy less, and 1 or more left, and every other animal has
\* the energy it had
C29_MovementEnergy ==
    phase = "movement" =>
        PaidInMovement(before.herds, herds) /\ PaidInMovement(before.prides, prides)

\* after Movement a Carviz is in another cell with its last point of energy
C29_Witness ==
    /\ phase = "movement"
    /\ \E k \in 1..Len(before.prides) :
        \E a \in Animals(<<before.prides[k]>>) :
            /\ Left(prides, before.prides[k].cell, a.id)
            /\ WithId(Members(prides), a.id).energy = 1

\* C30: after Movement the three layers of the grid are those Movement
\* started from
C30_MovementKeepsGrid == phase = "movement" => grid = before.grid

\* after Movement Erbast are in a cell for which the grid, left as it was,
\* counts none
C30_Witness ==
    /\ phase = "movement"
    /\ grid = before.grid
    /\ \E c \in ground_cells : at(grid, 1, c) = 0 /\ CountAt(herds, c) > 0


\* the step of World.grazing
GrazingStep == phase = "unify" /\ phase' = "grazing"

\* C31: in Grazing, the Vegetob taken from the cell of every herd equals
\* the energy the herd gains and is the lesser of the Vegetob of the cell and
\* the number of its Erbast that did not move; an Erbast gains one point or
\* none, those that moved none; the Vegetob of the cells without a herd is
\* unchanged
C31_GrazingBalance ==
    [][GrazingStep =>
        /\ \A k \in 1..Len(herds) :
            LET cell == herds[k].cell
                pop == herds[k].groups[1]
                grazed == herds'[k].groups[1]
                eaten == at(grid, 0, cell) - at(grid', 0, cell)
            IN  /\ herds'[k].cell = cell
                /\ Len(grazed) = Len(pop)
                /\ Ids(grazed) = Ids(pop)
                /\ eaten = total_energy(grazed) - total_energy(pop)
                /\ eaten = Min(at(grid, 0, cell), Len(SelectSeq(pop, IsStatic)))
                /\ \A n \in 1..Len(pop) :
                    LET energy == WithId(grazed, pop[n].id).energy
                    IN  /\ energy \in {pop[n].energy, pop[n].energy + 1}
                        /\ pop[n].moved => energy = pop[n].energy
        /\ \A c \in Cells : Get(herds, c) = 0 => at(grid', 0, c) = at(grid, 0, c)]_vars

\* a herd that came out of Grazing with Erbast that moved and Erbast that did
\* not, and less Vegetob in its cell than Movement found there
C31_Witness ==
    /\ phase = "grazing"
    /\ \E k \in 1..Len(herds) :
        LET pop == herds[k].groups[1]
        IN  /\ \E n \in 1..Len(pop) : pop[n].moved
            /\ \E n \in 1..Len(pop) : ~pop[n].moved
            /\ at(grid, 0, herds[k].cell) < at(before.grid, 0, herds[k].cell)
    /\ \E c \in ground_cells : Get(herds, c) = 0

\* the Erbast of pop that did not move and that Grazing fed, or left unfed
FedIds(pop, grazed) ==
    {a.id : a \in {pop[n] : n \in {m \in 1..Len(pop) :
        ~pop[m].moved /\ WithId(grazed, pop[m].id).energy = pop[m].energy + 1}}}

UnfedIds(pop, grazed) ==
    {a.id : a \in {pop[n] : n \in {m \in 1..Len(pop) :
        ~pop[m].moved /\ WithId(grazed, pop[m].id).energy = pop[m].energy}}}

\* Grazing in a cell with less Vegetob than Erbast that did not move: as
\* many are fed as there is Vegetob, none of the unfed had less energy than
\* one of the fed, the Vegetob becomes 0, the unfed have their social
\* attitude divided by HUNGER_E and the others keep theirs
Shortage(k) ==
    LET cell == herds[k].cell
        pop == herds[k].groups[1]
        grazed == herds'[k].groups[1]
    IN  at(grid, 0, cell) < Len(SelectSeq(pop, IsStatic)) =>
            /\ Cardinality(FedIds(pop, grazed)) = at(grid, 0, cell)
            /\ FedIds(pop, grazed) \cup UnfedIds(pop, grazed) = Ids(SelectSeq(pop, IsStatic))
            /\ \A f \in FedIds(pop, grazed), u \in UnfedIds(pop, grazed) :
                    WithId(pop, u).energy >= WithId(pop, f).energy
            /\ at(grid', 0, cell) = 0
            /\ \A n \in 1..Len(pop) :
                    WithId(grazed, pop[n].id).social_attitude =
                        IF pop[n].id \in UnfedIds(pop, grazed)
                        THEN RDiv(pop[n].social_attitude, HUNGER_E)
                        ELSE pop[n].social_attitude

\* the social attitude of every unfed Erbast of herd k is lower after Grazing
Lowered(k) ==
    LET pop == herds[k].groups[1]
        grazed == herds'[k].groups[1]
    IN  at(grid, 0, herds[k].cell) < Len(SelectSeq(pop, IsStatic)) =>
            \A id \in UnfedIds(pop, grazed) :
                RLt(WithId(grazed, id).social_attitude, WithId(pop, id).social_attitude)

\* the social attitude of every unfed Erbast of herd k is lower after
\* Grazing, unless it was 0, and is never higher
LoweredUnlessZero(k) ==
    LET pop == herds[k].groups[1]
        grazed == herds'[k].groups[1]
    IN  at(grid, 0, herds[k].cell) < Len(SelectSeq(pop, IsStatic)) =>
            \A id \in UnfedIds(pop, grazed) :
                IF WithId(pop, id).social_attitude[1] = 0
                THEN WithId(grazed, id).social_attitude[1] = 0
                ELSE RLt(WithId(grazed, id).social_attitude,
                         WithId(pop, id).social_attitude)

HuntingStep == phase = "grazing" /\ phase' = "hunting"

\* the animals of a population, as a set
AnimalSet(pop) == {pop[n] : n \in 1..Len(pop)}

\* C33: in Hunting, the herd of a cell that holds a pride loses exactly one
\* Erbast, one of the highest energy, its other Erbast are as they were and
\* the count of Erbast of the cell falls by one; the herds of the cells
\* without a pride, and the counts of those cells, are unchanged
C33_HuntedErbast ==
    [][HuntingStep =>
        \A k \in 1..Len(herds) :
            LET cell == herds[k].cell
                pop == herds[k].groups[1]
                hunted == herds'[k].groups[1]
            IN  /\ herds'[k].cell = cell
                /\ IF Get(prides, cell) # 0
                   THEN /\ Len(hunted) = Len(pop) - 1
                        /\ at(grid', 1, cell) = at(grid, 1, cell) - 1
                        /\ \E n \in 1..Len(pop) :
                            /\ pop[n].energy = HighestEnergy(pop)
                            /\ AnimalSet(hunted) = AnimalSet(pop) \ {pop[n]}
                   ELSE /\ herds'[k] = herds[k]
                        /\ at(grid', 1, cell) = at(grid, 1, cell)]_vars

\* after Hunting a herd that shares its cell with a pride has kept an Erbast
\* of less energy than the one the grid no longer counts, while the herd of
\* a cell without a pride is whole
C33_Witness ==
    /\ phase = "hunting"
    /\ \E k \in 1..Len(herds) :
        LET pop == herds[k].groups[1]
            was == Members(before.herds)
        IN  /\ Get(prides, herds[k].cell) # 0
            /\ Len(pop) > 0
            /\ \E id \in Ids(was) \ Ids(Members(herds)) :
                \A n \in 1..Len(pop) : pop[n].energy < WithId(was, id).energy - 1
    /\ \E k \in 1..Len(herds) :
        /\ Get(prides, herds[k].cell) = 0
        /\ Len(herds[k].groups[1]) = at(grid, 1, herds[k].cell)

\* the step of World.unify
UnifyStep == phase = "movement" /\ phase' = "unify"

\* the pride of entry k after Unify is pop with every social attitude
\* raised by WIN_FIGHT, at most to 1, and nothing else changed
Victorious(k, pop) ==
    LET winner == prides'[k].groups[1]
    IN  /\ Len(winner) = Len(pop)
        /\ \A n \in 1..Len(pop) :
            \E m \in 1..Len(winner) :
                /\ winner[m].id = pop[n].id
                /\ winner[m].energy = pop[n].energy
                /\ winner[m].lifetime = pop[n].lifetime
                /\ winner[m].age = pop[n].age
                /\ winner[m].social_attitude =
                        RMin(RAdd(pop[n].social_attitude, WIN_FIGHT), ONE)

\* no animal of pop is in a pride after Unify
Eliminated(pop) == Ids(pop) \cap Ids(Members(prides')) = {}

\* C34: when the two prides of a cell fight, one survives with its members,
\* each with the social attitude min(old + WIN_FIGHT, 1), and the animals of
\* the other are in no pride any more; the first pride, the smaller one,
\* wins every fight in which the draws are equal, so a second pride of
\* energy 0, whose draw is 0, never wins
C34_Fight ==
    [][UnifyStep =>
        \A k \in 1..Len(prides) :
            LET pride_list == prides[k].groups
                sorted == SortAsc(pride_list,
                                  [n \in 1..Len(pride_list) |-> Len(pride_list[n])])
                pride1 == sorted[1]
                pride2 == sorted[2]
            IN  (Len(pride_list) = 2 /\ ~PridesJoin(pride1, pride2)) =>
                    /\ Len(prides'[k].groups) = 1
                    /\ \/ Victorious(k, pride1) /\ Eliminated(pride2)
                       \/ Victorious(k, pride2) /\ Eliminated(pride1)
                    /\ total_energy(pride2) = 0 => Victorious(k, pride1)]_vars

\* a pride of energy 0 stands after Unify, its social attitudes raised,
\* while a Carviz that had energy and came to its cell is in no pride: the
\* pride won on equal draws
C34_Witness ==
    /\ phase = "unify"
    /\ \E k \in 1..Len(prides) :
        LET pop == prides[k].groups[1]
            was == Members(before.prides)
        IN  /\ total_energy(pop) = 0
            /\ Len(pop) > 0
            /\ \A n \in 1..Len(pop) :
                    pop[n].social_attitude =
                        RAdd(WithId(was, pop[n].id).social_attitude, WIN_FIGHT)
            /\ \E id \in Ids(was) \ Ids(Members(prides)) :
                    WithId(was, id).energy > 1

\* the list of entry k after one round: the two prides of least population
\* are replaced by one pride made of Carviz of theirs and the other prides
\* are kept as they were
RoundOf(k) ==
    LET pride_list == prides[k].groups
        left == prides'[k].groups
    IN  /\ Len(left) = Len(pride_list) - 1
        /\ \E i, j \in 1..Len(pride_list) :
            /\ i # j
            /\ \A n \in 1..Len(pride_list) \ {i, j} :
                /\ Len(pride_list[n]) >= Len(pride_list[i])
                /\ Len(pride_list[n]) >= Len(pride_list[j])
                /\ \E m \in 2..Len(left) : left[m] = pride_list[n]
            /\ Len(left[1]) > 0
            /\ Ids(left[1]) \subseteq Ids(pride_list[i]) \cup Ids(pride_list[j])

\* C35: Pride.unify on a list of prides ends; every round replaces the two
\* prides of least population by one pride and so shortens the list by
\* exactly one, and when it has ended one pride is left for the cell
C35_UnifyTerminates ==
    /\ [][(phase = "movement" /\ phase' = "movement") =>
            \A k \in 1..Len(prides) :
                prides'[k] # prides[k] => RoundOf(k) /\ prides'[k].cell = prides[k].cell]_vars
    /\ <>(phase = "unify")
    /\ [](phase = "unify" =>
            \A k \in 1..Len(prides) :
                Len(prides[k].groups) = 1 /\ Len(prides[k].groups[1]) > 0)

\* three prides of two Carviz met in the cell and Pride.unify has returned
\* one pride
C35_Witness ==
    /\ phase = "unify"
    /\ day = 1
    /\ herds = <<>>
    /\ nextId = 1 + MaxPrides * NUM_CARVIZ_UB
    /\ at(grid, 2, prides[1].cell) < MaxPrides * NUM_CARVIZ_UB
    /\ Len(prides[1].groups) = 1

\* the eight cells around a cell
Surrounding(cell) ==
    {<<cell[1] + i, cell[2] + j>> : i, j \in -1..1} \ {cell}

\* all eight are ground cells full of Vegetob in the grid g
Surrounded(g, cell) ==
    \A c \in Surrounding(cell) : c \in ground_cells /\ at(g, 0, c) = MAX_VEGETOB

\* Overwhelming on the species of layer idx: the entries of the surrounded
\* cells are removed and their counts set to 0, the others are as they were
Overwhelmed(idx, dict, left) ==
    /\ Keys(left) = {c \in Keys(dict) : ~Surrounded(grid, c)}
    /\ \A k \in 1..Len(dict) :
        IF Surrounded(grid, dict[k].cell)
        THEN at(grid', idx, dict[k].cell) = 0
        ELSE /\ \E n \in 1..Len(left) : left[n] = dict[k]
             /\ at(grid', idx, dict[k].cell) = at(grid, idx, dict[k].cell)
    /\ Len(left) = Cardinality(Keys(left))

\* C36: in Overwhelming a herd or a pride is removed, and the count of its
\* cell set to 0, exactly when the eight cells around its cell are ground
\* cells full of Vegetob after the Growing of the day, so never next to
\* water; the other groups and the Vegetob are unchanged
C36_Overwhelming ==
    [][(phase = "growing" /\ phase' = "overwhelming") =>
        /\ Overwhelmed(1, herds, herds')
        /\ Overwhelmed(2, prides, prides')
        /\ grid'[1] = grid[1]]_vars

\* after Overwhelming a group that Growing found in the middle cell is gone,
\* the cell (1, 2) having become full that day, and a group in the corner,
\* whose ground neighbours are all full, is still there
C36_Witness ==
    /\ phase = "overwhelming"
    /\ at(call.grid, 0, <<1, 2>>) = MAX_VEGETOB - GROWING
    /\ \/ /\ <<2, 2>> \in Keys(call.herds) \ Keys(herds)
          /\ <<1, 1>> \in Keys(prides)
          /\ at(grid, 1, <<2, 2>>) = 0
       \/ /\ <<2, 2>> \in Keys(call.prides) \ Keys(prides)
          /\ <<1, 1>> \in Keys(herds)
          /\ at(grid, 2, <<2, 2>>) = 0

\* the greater of the distances in rows and in columns
Chebyshev(c, cell) == Max(Abs(c[1] - cell[1]), Abs(c[2] - cell[2]))

\* C37: for every cell and every radius from 1, neighbourhood lists exactly
\* the ground cells at a Chebyshev distance from 1 to the radius, each once:
\* never the cell itself, a water cell, a border cell or a cell off the
\* grid.  Stated of the initial world and of the worlds Overwhelming and
\* Movement, which call it, leave
C37_Neighbourhood ==
    phase \in {"init", "overwhelming", "movement"} =>
    \A cell \in Cells, radius \in 1..NUMCELLS_R :
        LET nb == neighbourhood(cell[1], cell[2], radius)
            listed == {nb[k] : k \in 1..Len(nb)}
        IN  /\ listed = {c \in ground_cells :
                            Chebyshev(c, cell) >= 1 /\ Chebyshev(c, cell) <= radius}
            /\ Len(nb) = Cardinality(listed)
            /\ \A c \in listed :
                /\ c # cell
                /\ c \in Cells \ Border
                /\ at(grid, 0, c) # WATER

\* Movement has asked for the neighbours of the cell (1, 1) in a layout in
\* which the cell next to it is water and farther cells are ground
C37_Witness ==
    /\ phase = "movement"
    /\ <<1, 2>> \notin ground_cells
    /\ Len(neighbourhood(1, 1, 1)) = 1
    /\ Len(neighbourhood(1, 1, 2)) = 4
    /\ Len(neighbourhood(0, 0, 1)) = 1

\* C38: always, every herd and every pride is in a ground cell, and no cell
\* of water, the border included, counts an Erbast or a Carviz
C38_GroupsOnGround ==
    /\ Keys(herds) \cup Keys(prides) \subseteq ground_cells
    /\ \A c \in Cells \ ground_cells : at(grid, 1, c) = 0 /\ at(grid, 2, c) = 0

\* an animal has moved, in a layout with water next to the cell it left,
\* and Unify has counted it in its new cell
C38_Witness ==
    /\ phase = "unify"
    /\ <<1, 2>> \notin ground_cells
    /\ \E c \in (Keys(herds) \cup Keys(prides)) \ {<<1, 1>>} :
            at(grid, 1, c) + at(grid, 2, c) > 0

\* every cell of the dict holds one group, of at least one animal
Populated(dict) ==
    \A k \in 1..Len(dict) : Len(dict[k].groups) = 1 /\ Len(dict[k].groups[1]) > 0

\* C39: when Hunting starts every herd and every pride has at least one
\* member, and Hunting ends without an error: no pride takes its prey from
\* an empty herd or divides the prize by 0
C39_HuntingSafe ==
    [][phase = "grazing" =>
        /\ Populated(herds)
        /\ Populated(prides)
        /\ phase' = "hunting"]_vars

\* Hunting has taken the only Erbast of a herd, which is left empty in the
\* cell of the pride
C39_Witness ==
    /\ phase = "hunting"
    /\ \E k \in 1..Len(herds) :
        /\ herds[k].groups[1] = <<>>
        /\ Get(prides, herds[k].cell) # 0
        /\ Len(prides[Get(prides, herds[k].cell)].groups[1]) > 0

\* C40: pressing 'u' or 'U' starts a day of the world only while the
\* simulation is paused; while it is not paused the key press leaves the day
\* counter and the world as they are, and no day starts
C40_ManualUpdate ==
    [][(phase \in {"init", "stats"} /\ event' \in {"u", "U"}) =>
        IF pause
        THEN phase' = "growing" /\ call' = World
        ELSE UNCHANGED <<grid, herds, prides, day, phase, time_data, world_stats>>]_vars

=============================================================================
